---- MODULE Spec2Model ----
(***************************************************************************)
(* A model of the JavaScript pattern adapters of moz-l10n (js/src):        *)
(* the Fluent normalizer (fluent-parse.ts, message) and reconstructor      *)
(* (fluent-serialize.ts, fluentSerializeMessage), and the pattern-level    *)
(* parse/serialize pairs behind parsePattern / serializePattern.           *)
(*                                                                         *)
(* Strings of the program are sequences of one-character strings, so that  *)
(* escaping, trimming, indentation and scanning are computed character by  *)
(* character as the code computes them.  An absent (undefined) property of *)
(* a JavaScript object is the value Undef.                                 *)
(***************************************************************************)
EXTENDS Integers, Sequences, FiniteSets, TLC

VARIABLES
  pc,       \* where the current sequence of calls stands
  round,    \* how many times the entry at hand has been serialized
  ast,      \* the Fluent AST handed over by the grammar engine
  msg,      \* the result of message(): a Message, or a thrown error
  prevMsg,  \* the Message of the previous round
  text,     \* the result of fluentSerializeEntry: text, or a thrown error
  call,     \* the pattern-level call being made (function, arguments)
  ret,      \* what that call returned or threw
  errs,     \* the defects handed to the onError sink so far, in order
  orig,     \* the pattern a serialize/parse round trip started from
  strictRet, \* what the same call did on the same input without a sink
  _xmlEntityKey, \* the module-level counter of android-parse.ts
  xmlEntityKey   \* the module-level counter of android-serialize.ts

vars == <<pc, round, ast, msg, prevMsg, text, call, ret, errs, orig, strictRet,
          _xmlEntityKey, xmlEntityKey>>

(***************************************************************************)
(* Strings                                                                 *)
(***************************************************************************)
Undef == <<"undefined">>

Digits == {"0", "1", "2", "3", "4", "5", "6", "7", "8", "9"}
LowerSeq == <<"a", "b", "c", "d", "e", "f", "g", "h", "i", "j", "k", "l", "m",
              "n", "o", "p", "q", "r", "s", "t", "u", "v", "w", "x", "y", "z">>
UpperSeq == <<"A", "B", "C", "D", "E", "F", "G", "H", "I", "J", "K", "L", "M",
              "N", "O", "P", "Q", "R", "S", "T", "U", "V", "W", "X", "Y", "Z">>
Letters == {LowerSeq[i] : i \in 1..26} \cup {UpperSeq[i] : i \in 1..26}
\* \w of a JavaScript regular expression
WordChars == Letters \cup Digits \cup {"_"}
\* \s of a JavaScript regular expression, within the characters modelled
WhiteSpace == {" ", "\n", "\t"}

Last(s) == s[Len(s)]
Front(s) == SubSeq(s, 1, Len(s) - 1)
Drop(s, n) == SubSeq(s, n + 1, Len(s))
Take(s, n) == SubSeq(s, 1, n)

Includes(s, ch) == \E i \in 1..Len(s) : s[i] = ch

\* String.prototype.startsWith at an offset: t occurs in s at index i (1-based)
StartsWithAt(s, t, i) ==
  /\ i + Len(t) - 1 <= Len(s)
  /\ \A j \in 1..Len(t) : s[i + j - 1] = t[j]

Max(S) == CHOOSE x \in S : \A y \in S : y <= x
Min(S) == CHOOSE x \in S : \A y \in S : x <= y

RECURSIVE Concat(_)
\* Array.prototype.join('') of a list of strings
Concat(ss) ==
  IF ss = <<>> THEN <<>>
  ELSE IF Len(ss) = 1 THEN ss[1]
  ELSE LET h == Len(ss) \div 2
       IN Concat(Take(ss, h)) \o Concat(Drop(ss, h))

Spaces(n) == [i \in 1..n |-> " "]

\* String.prototype.trimEnd
TrimEnd(s) ==
  LET keep == {i \in 1..Len(s) : s[i] \notin WhiteSpace}
  IN IF keep = {} THEN <<>> ELSE Take(s, Max(keep))

\* str.replace(/^/gm, ' '.repeat(n)): n spaces at the start of every line
IndentLines(s, n) ==
  Spaces(n) \o Concat([i \in 1..Len(s) |->
                         IF s[i] = "\n" THEN <<"\n">> \o Spaces(n) ELSE <<s[i]>>])

\* the UTF-16 code units of the characters modelled
Punctuation ==
  << <<"\t", 9>>, <<"\n", 10>>, <<" ", 32>>, <<"!", 33>>, <<"\"", 34>>,
     <<"#", 35>>, <<"$", 36>>, <<"%", 37>>, <<"&", 38>>, <<"'", 39>>,
     <<"(", 40>>, <<")", 41>>, <<"*", 42>>, <<",", 44>>, <<"-", 45>>,
     <<".", 46>>, <<"/", 47>>, <<":", 58>>, <<";", 59>>, <<"<", 60>>,
     <<"=", 61>>, <<">", 62>>, <<"?", 63>>, <<"@", 64>>, <<"[", 91>>,
     <<"\\", 92>>, <<"]", 93>>, <<"_", 95>>, <<"{", 123>>, <<"|", 124>>,
     <<"}", 125>> >>
HexSeq == <<"0", "1", "2", "3", "4", "5", "6", "7", "8", "9",
            "a", "b", "c", "d", "e", "f">>

\* ch.charCodeAt(0); a character outside the table is U+FFFD
charCodeAt(ch) ==
  IF \E j \in 1..26 : LowerSeq[j] = ch
  THEN 96 + (CHOOSE j \in 1..26 : LowerSeq[j] = ch)
  ELSE IF \E j \in 1..26 : UpperSeq[j] = ch
  THEN 64 + (CHOOSE j \in 1..26 : UpperSeq[j] = ch)
  ELSE IF \E j \in 1..10 : HexSeq[j] = ch
  THEN 47 + (CHOOSE j \in 1..10 : HexSeq[j] = ch)
  ELSE IF \E j \in 1..Len(Punctuation) : Punctuation[j][1] = ch
  THEN Punctuation[CHOOSE j \in 1..Len(Punctuation) : Punctuation[j][1] = ch][2]
  ELSE 65533

\* String.fromCharCode(n); a code unit outside the table is written U+n
\* with n in decimal
fromCharCode(n) ==
  LET known == {LowerSeq[j] : j \in 1..26} \cup {UpperSeq[j] : j \in 1..26}
               \cup {HexSeq[j] : j \in 1..10}
               \cup {Punctuation[j][1] : j \in 1..Len(Punctuation)}
  IN IF \E ch \in known : charCodeAt(ch) = n
     THEN CHOOSE ch \in known : charCodeAt(ch) = n
     ELSE "U+" \o ToString(n)

\* the value of a string of digits in the given base (Number, parseInt)
RECURSIVE parseDigits(_, _)
parseDigits(digits, base) ==
  IF digits = <<>> THEN 0
  ELSE parseDigits(Front(digits), base) * base
       + (CHOOSE d \in 0..15 : \/ HexSeq[d + 1] = Last(digits)
                             \/ (d >= 10 /\ UpperSeq[d - 9] = Last(digits)))

\* /^[A-Za-z][-0-9A-Z_a-z]*$/
isIdentifier(value) ==
  /\ value # Undef
  /\ value # <<>>
  /\ value[1] \in Letters
  /\ \A i \in 2..Len(value) : value[i] \in WordChars \cup {"-"}

\* /^-?\d+(\.\d*)?$/
isNumber(value) ==
  /\ value # Undef
  /\ LET body == IF value # <<>> /\ value[1] = "-" THEN Tail(value) ELSE value
         dots == {i \in 1..Len(body) : body[i] = "."}
     IN /\ body # <<>>
        /\ body[1] \in Digits
        /\ \A i \in 1..Len(body) : body[i] \in Digits \cup {"."}
        /\ Cardinality(dots) <= 1

(***************************************************************************)
(* The Pattern model (model.ts)                                            *)
(*                                                                         *)
(* A part of a Pattern is a string, an Expression or a Markup.  The        *)
(* properties _ and $ of an Expression are the fields lit and var.  opt is *)
(* NoOpt or the list of its <<name, value>> entries in insertion order;    *)
(* attr is the record of the attributes the adapters read, each Undef when *)
(* the attribute is absent.                                                *)
(***************************************************************************)
\* the opt of a part without options
NoOpt == <<Undef>>
NoAttr == [source |-> Undef, translate |-> Undef]
Str(s) == [k |-> "string", s |-> s]
Expr(lit, var, fn, opt) ==
  [k |-> "expr", lit |-> lit, var |-> var, fn |-> fn, opt |-> opt, attr |-> NoAttr]
Markup(kind, name, opt) ==
  [k |-> "markup", kind |-> kind, name |-> name, opt |-> opt, attr |-> NoAttr]

isString(x) == x.k = "string"
isExpression(x) == x.k = "expr"
isMarkup(x) == x.k = "markup"

\* the names of the function annotations the code compares against
FnNumber == <<"n", "u", "m", "b", "e", "r">>
FnString == <<"s", "t", "r", "i", "n", "g">>
FnMessage == <<"m", "e", "s", "s", "a", "g", "e">>

(***************************************************************************)
(* The Fluent AST of the grammar engine (@fluent/syntax), as far as        *)
(* fluent-parse.ts reads it.  A SelectExpression carries its selector node *)
(* in sel; node is the identity of that selector object, which the code    *)
(* compares with Array.prototype.includes.                                 *)
(***************************************************************************)
TextElement(v) == [type |-> "TextElement", value |-> v]
Placeable(e) == [type |-> "Placeable", expression |-> e]
VariableReference(n) == [type |-> "VariableReference", name |-> n]
StringLiteral(v) == [type |-> "StringLiteral", value |-> v]
NumberLiteral(v) == [type |-> "NumberLiteral", value |-> v]
SelectExpression(node, selector, variants) ==
  [type |-> "SelectExpression", node |-> node, selector |-> selector,
   variants |-> variants]
\* key: an Identifier or a NumberLiteral; value: the elements of the pattern
Variant(keyType, name, default, value) ==
  [keyType |-> keyType, name |-> name, default |-> default, value |-> value]

pluralCategories ==
  { <<"z", "e", "r", "o">>, <<"o", "n", "e">>, <<"t", "w", "o">>,
    <<"f", "e", "w">>, <<"m", "a", "n", "y">>, <<"o", "t", "h", "e", "r">> }

variantKey(v) ==
  IF v.keyType = "Identifier"
  THEN [name |-> v.name, isDefault |-> v.default, isNumeric |-> FALSE]
  ELSE [name |-> v.name, isDefault |-> v.default, isNumeric |-> TRUE]

keysEqual(a, b) ==
  /\ a.name = b.name
  /\ a.isDefault = b.isDefault
  /\ a.isNumeric = b.isNumeric

\* a.opt === b.opt || JSON.stringify(a.opt) === JSON.stringify(b.opt)
exprEqual(a, b) ==
  /\ a.var = b.var
  /\ a.lit = b.lit
  /\ a.fn = b.fn
  /\ a.opt = b.opt

\* expression(fe, isSelector) of fluent-parse.ts, for the inline expressions
\* modelled; a StringLiteral's value is already unescaped (fe.parse().value)
ftlExpression(fe) ==
  CASE fe.type = "NumberLiteral" -> Expr(fe.value, Undef, FnNumber, NoOpt)
    [] fe.type = "StringLiteral" -> Expr(fe.value, Undef, Undef, NoOpt)
    [] fe.type = "VariableReference" -> Expr(Undef, fe.name, Undef, NoOpt)

selectExpression(ftlSel, keys) ==
  IF ftlSel.type = "VariableReference"
  THEN LET fn == IF \A i \in 1..Len(keys) :
                      keys[i].isNumeric \/ keys[i].name \in pluralCategories
                 THEN FnNumber ELSE FnString
       IN Expr(Undef, ftlSel.name, fn, NoOpt)
  ELSE IF ftlSel.type = "StringLiteral"
  THEN Expr(ftlSel.value, Undef, FnString, NoOpt)
  ELSE ftlExpression(ftlSel)

\* the keys of row.keys as they were collected, repeats and all; what
\* uniqueKeys is told apart from
collectedKeys(row) == row.keys

\* uniqueKeys(row): the keys of row.keys, each at its first occurrence
uniqueKeys(row) ==
  LET first == {i \in 1..Len(row.keys) :
                  \A j \in 1..(i - 1) : ~keysEqual(row.keys[j], row.keys[i])}
      nth(n) == CHOOSE i \in first : Cardinality({j \in first : j <= i}) = n
  IN [n \in 1..Cardinality(first) |-> row.keys[nth(n)]]

\* every choice node recorded as a row of its own; what recordSelector is
\* told apart from
recordSelectorApart(result, ftlSel, msgSel, keys) ==
  Append(result, [msgSel |-> msgSel, ftlSelectors |-> <<ftlSel>>, keys |-> keys])

\* the rows of result after one choice node has been recorded
recordSelector(result, ftlSel, msgSel, keys) ==
  IF \E i \in 1..Len(result) : exprEqual(result[i].msgSel, msgSel)
  THEN [i \in 1..Len(result) |->
          IF exprEqual(result[i].msgSel, msgSel)
          THEN [result[i] EXCEPT !.ftlSelectors = Append(@, ftlSel),
                                 !.keys = @ \o keys]
          ELSE result[i]]
  ELSE Append(result,
              [msgSel |-> msgSel, ftlSelectors |-> <<ftlSel>>, keys |-> keys])

RECURSIVE findSelectors(_, _)
RECURSIVE findSelectorsInVariants(_, _)
findSelectors(elements, result) ==
  IF elements = <<>> THEN result
  ELSE LET el == Head(elements) IN
       IF el.type = "Placeable" /\ el.expression.type = "SelectExpression"
       THEN LET se == el.expression
                keys == [i \in 1..Len(se.variants) |-> variantKey(se.variants[i])]
                msgSel == selectExpression(se.selector, keys)
                found == recordSelector(result, se.node, msgSel, keys)
            IN findSelectors(Tail(elements),
                             findSelectorsInVariants(se.variants, found))
       ELSE findSelectors(Tail(elements), result)

findSelectorsInVariants(variants, result) ==
  IF variants = <<>> THEN result
  ELSE findSelectorsInVariants(Tail(variants),
                               findSelectors(Head(variants).value, result))

RECURSIVE keyMatrixColumnMajor(_)
\* the same tuples listed with the first selector varying fastest; what
\* keyMatrix is told apart from
keyMatrixColumnMajor(selKeyValues) ==
  IF Len(selKeyValues) = 1
  THEN [i \in 1..Len(selKeyValues[1]) |-> <<selKeyValues[1][i]>>]
  ELSE LET res == keyMatrixColumnMajor(Tail(selKeyValues))
           selKeys == Head(selKeyValues)
           n == Len(selKeys)
       IN [i \in 1..(Len(res) * n) |->
             <<selKeys[((i - 1) % n) + 1]>> \o res[((i - 1) \div n) + 1]]

RECURSIVE keyMatrix(_)
\* selKeyValues.reduce((res, selKeys) =>
\*   res.flatMap((prev) => selKeys.map((key) => [prev, key].flat())))
keyMatrix(selKeyValues) ==
  IF Len(selKeyValues) = 1
  THEN [i \in 1..Len(selKeyValues[1]) |-> <<selKeyValues[1][i]>>]
  ELSE LET res == keyMatrix(Front(selKeyValues))
           selKeys == Last(selKeyValues)
           n == Len(selKeys)
       IN [i \in 1..(Len(res) * n) |->
             Append(res[((i - 1) \div n) + 1], selKeys[((i - 1) % n) + 1])]

\* the candidate rows [keys, pat] before any pattern is added
initialVariants(selData) ==
  IF Len(selData) = 0 THEN << [keys |-> <<>>, pat |-> <<>>] >>
  ELSE LET km == keyMatrix([i \in 1..Len(selData) |-> uniqueKeys(selData[i])])
       IN [i \in 1..Len(km) |-> [keys |-> km[i], pat |-> <<>>]]

\* index of the row of selData that lists the selector node
selectorIndex(selData, node) ==
  CHOOSE i \in 1..Len(selData) :
    /\ Includes(selData[i].ftlSelectors, node)
    /\ \A j \in 1..(i - 1) : ~Includes(selData[j].ftlSelectors, node)

\* an unset slot of filter (undefined)
NoKey == [name |-> Undef, isDefault |-> FALSE, isNumeric |-> FALSE]

\* filter.every((filt, idx) => filt === undefined || keysEqual(filt, keys[idx]))
passesFilter(filter, keys) ==
  \A idx \in 1..Len(filter) :
    filter[idx] = NoKey \/ keysEqual(filter[idx], keys[idx])

\* a row that takes every text run as a part of its own; what appendToRow
\* is told apart from
appendToRowPush(row, el, filter) ==
  IF ~passesFilter(filter, row.keys) THEN row
  ELSE IF el.type = "TextElement"
  THEN [row EXCEPT !.pat = Append(@, Str(el.value))]
  ELSE [row EXCEPT !.pat = Append(@, ftlExpression(el))]

\* one row after a text run or an expression has been offered to it
appendToRow(row, el, filter) ==
  IF ~passesFilter(filter, row.keys) THEN row
  ELSE IF el.type = "TextElement"
  THEN IF row.pat # <<>> /\ isString(Last(row.pat))
       THEN [row EXCEPT !.pat[Len(row.pat)].s = @ \o el.value]
       ELSE [row EXCEPT !.pat = Append(@, Str(el.value))]
  ELSE [row EXCEPT !.pat = Append(@, ftlExpression(el))]

\* the slot of a choice node left with the key of its last variant; what
\* restoreFilter is told apart from
leaveFilter(st, idx, prevFilt) == st

\* filter[idx] = prevFilt, after the last variant of a choice node
restoreFilter(st, idx, prevFilt) == [st EXCEPT !.filter[idx] = prevFilt]

RECURSIVE addPattern(_, _, _)
RECURSIVE addVariants(_, _, _, _)
\* st: the rows mv, the filter slots and the variable names seen so far
addPattern(elements, selData, st) ==
  IF elements = <<>> THEN st
  ELSE LET el0 == Head(elements)
           el == IF el0.type = "Placeable" THEN el0.expression ELSE el0
       IN IF el.type = "SelectExpression"
          THEN LET idx == selectorIndex(selData, el.node)
                   prevFilt == st.filter[idx]
                   st1 == addVariants(el.variants, idx, selData, st)
               IN addPattern(Tail(elements), selData,
                             restoreFilter(st1, idx, prevFilt))
          ELSE LET expr == IF el.type = "TextElement" THEN Undef
                           ELSE ftlExpression(el)
                   hit == \E i \in 1..Len(st.mv) :
                            passesFilter(st.filter, st.mv[i].keys)
                   names == IF el.type # "TextElement" /\ hit
                               /\ expr.var # Undef /\ expr.var # <<>>
                            THEN st.varNames \cup {expr.var}
                            ELSE st.varNames
               IN addPattern(Tail(elements), selData,
                    [st EXCEPT
                       !.mv = [i \in 1..Len(st.mv) |->
                                 appendToRow(st.mv[i], el, st.filter)],
                       !.varNames = names])

addVariants(variants, idx, selData, st) ==
  IF variants = <<>> THEN st
  ELSE LET v == Head(variants)
           st1 == [st EXCEPT !.filter[idx] = variantKey(v)]
       IN addVariants(Tail(variants), idx, selData,
                      addPattern(v.value, selData, st1))

RECURSIVE DecimalOf(_)
\* String(n) of a non-negative integer
DecimalOf(n) ==
  LET d == <<"0", "1", "2", "3", "4", "5", "6", "7", "8", "9">>
  IN IF n < 10 THEN <<d[n + 1]>> ELSE DecimalOf(n \div 10) \o <<d[(n % 10) + 1]>>

\* the name as it stands, taken or not; what freeName is told apart from
ownName(name, stem, i, varNames) == name

RECURSIVE freeName(_, _, _, _)
\* while (!name || varNames.has(name)) { i += 1; name = `${stem}_${i}` }
freeName(name, stem, i, varNames) ==
  IF name = <<>> \/ name \in varNames
  THEN freeName(stem \o <<"_">> \o DecimalOf(i + 1), stem, i + 1, varNames)
  ELSE name

RECURSIVE declNames(_, _, _)
\* the names given to the selectors, in order, with varNames growing
declNames(selExpressions, varNames, sel) ==
  IF selExpressions = <<>> THEN sel
  ELSE LET expr == Head(selExpressions)
           stem == IF expr.var = Undef THEN <<>> ELSE expr.var
           name == freeName(stem, stem, 0, varNames)
       IN declNames(Tail(selExpressions), varNames \cup {name}, Append(sel, name))

\* a key of a SelectMessage: a string, or {'*': name}
message_key(key) == [name |-> key.name, catchall |-> key.isDefault]

\* message(ftlPattern): a Pattern when there is no selector, else a
\* SelectMessage; decl lists the <<name, expression>> entries in order
message(elements) ==
  LET build(selData, st) ==
        IF Len(selData) > 0
        THEN LET selExpressions == [i \in 1..Len(selData) |-> selData[i].msgSel]
                 sel == declNames(selExpressions, st.varNames, <<>>)
                 kept == SelectSeq(st.mv, LAMBDA mv : Len(mv.pat) > 0)
             IN [type |-> "select",
                 decl |-> [i \in 1..Len(sel) |-> <<sel[i], selExpressions[i]>>],
                 sel |-> sel,
                 alt |-> [i \in 1..Len(kept) |->
                            [keys |-> [j \in 1..Len(kept[i].keys) |->
                                         message_key(kept[i].keys[j])],
                             pat |-> kept[i].pat]]]
        ELSE [type |-> "pattern", pat |-> st.mv[1].pat]
      populate(selData) ==
        build(selData,
              addPattern(elements, selData,
                         [mv |-> initialVariants(selData),
                          filter |-> [i \in 1..Len(selData) |-> NoKey],
                          varNames |-> {}]))
  IN populate(findSelectors(elements, <<>>))

(***************************************************************************)
(* Errors (errors.ts).  The message of an error is `${fmt}: ${what}`; pos  *)
(* and range are NoPos when the constructor was not given them.            *)
(***************************************************************************)
\* ERROR_RESULT, '{' U+FFFD '}'
ERROR_RESULT == <<"{", "U+FFFD", "}">>

NoPos == -1
SerializeError(fmt, what, pos) ==
  [type |-> "SerializeError", fmt |-> fmt, what |-> what, pos |-> pos,
   range |-> <<NoPos, NoPos>>]
ParseError(fmt, what, start, end) ==
  [type |-> "ParseError", fmt |-> fmt, what |-> what, pos |-> NoPos,
   range |-> <<start, end>>]
\* an error that is neither a ParseError nor a SerializeError
OtherError(what) ==
  [type |-> "Error", fmt |-> "", what |-> what, pos |-> NoPos,
   range |-> <<NoPos, NoPos>>]

(***************************************************************************)
(* fluent-serialize.ts                                                     *)
(***************************************************************************)
\* String.prototype.toUpperCase, for the letters a-z
toUpperCase(str) ==
  [i \in 1..Len(str) |->
     IF \E j \in 1..26 : LowerSeq[j] = str[i]
     THEN UpperSeq[CHOOSE j \in 1..26 : LowerSeq[j] = str[i]] ELSE str[i]]

\* /^[A-Za-z][-0-9A-Z_a-z]*\.[A-Za-z][-0-9A-Z_a-z]*$/
isIdWithAttr(value) ==
  \E i \in 2..(Len(value) - 1) :
    /\ value[i] = "."
    /\ isIdentifier(Take(value, i - 1))
    /\ isIdentifier(Drop(value, i))

\* value.replace(/[\\"]/g, '\\$&').replaceAll('\n', '\\u000a')
escapeLiteral(value) ==
  Concat([i \in 1..Len(value) |->
            IF value[i] \in {"\\", "\""} THEN <<"\\", value[i]>>
            ELSE IF value[i] = "\n" THEN <<"\\", "u", "0", "0", "0", "a">>
            ELSE <<value[i]>>])

literal(value) ==
  IF value = Undef \/ value = <<>> THEN <<"\"", "\"">>
  ELSE IF isNumber(value) THEN value
  ELSE <<"\"">> \o escapeLiteral(value) \o <<"\"">>

\* options.join(', ')
joinOptions(options) ==
  Concat([i \in 1..Len(options) |->
            IF i = 1 THEN options[i] ELSE <<",", " ">> \o options[i]])

\* what a call hands back: the value it returned, or the error it threw
Ok(value) == [ok |-> TRUE, value |-> value, error |-> OtherError("")]
Throw(error) == [ok |-> FALSE, value |-> <<>>, error |-> error]

\* expression(expr, isSelector) of fluent-serialize.ts
expression(expr, isSelector) ==
  LET hasOpt == expr.k # "string" /\ expr.opt # NoOpt
      badOpt == hasOpt /\ \E i \in 1..Len(expr.opt) : expr.opt[i][2].k # "string"
      options == IF hasOpt /\ ~badOpt
                 THEN [i \in 1..Len(expr.opt) |->
                         expr.opt[i][1] \o <<":", " ">> \o literal(expr.opt[i][2].s)]
                 ELSE <<>>
      withArgs(id) == IF options # <<>>
                  THEN id \o <<"(">> \o joinOptions(options) \o <<")">>
                  ELSE id
      unsupported ==
        Throw(SerializeError("fluent", "Unsupported pattern part", NoPos))
      plain ==
        IF isExpression(expr) /\ expr.lit # Undef THEN Ok(literal(expr.lit))
        ELSE IF isExpression(expr) /\ isIdentifier(expr.var)
        THEN Ok(<<"$">> \o expr.var)
        ELSE unsupported
  IN IF isExpression(expr) /\ isIdentifier(expr.fn)
     THEN IF badOpt
          THEN Throw(SerializeError("fluent", "Unsupported option value", NoPos))
          ELSE IF expr.fn = FnMessage
          THEN LET id == expr.lit
                   isTerm == id # Undef /\ id # <<>> /\ id[1] = "-"
                   idName == IF isTerm THEN Tail(id) ELSE id
                   validId == isIdentifier(idName)
                   validIdWithAttr == ~validId /\ idName # Undef /\ isIdWithAttr(idName)
                   refused == Throw(SerializeError("fluent",
                                "Unsupported message or term reference", NoPos))
               IN IF id = Undef THEN refused
                  ELSE IF isSelector
                  THEN IF isTerm /\ validIdWithAttr THEN Ok(withArgs(id)) ELSE refused
                  ELSE IF isTerm
                  THEN IF validId THEN Ok(withArgs(id)) ELSE refused
                  ELSE IF (validId \/ validIdWithAttr) /\ options = <<>>
                  THEN Ok(id) ELSE refused
          ELSE IF expr.fn = FnNumber /\ options = <<>> /\ isNumber(expr.lit)
          THEN Ok(expr.lit)
          ELSE LET args == IF expr.lit # Undef THEN <<literal(expr.lit)>> \o options
                           ELSE IF isIdentifier(expr.var)
                           THEN << <<"$">> \o expr.var >> \o options
                           ELSE options
               IN Ok(toUpperCase(expr.fn) \o <<"(">> \o joinOptions(args) \o <<")">>)
     ELSE plain

\* part.replaceAll('\\', '\\\\').replaceAll('{', '\\u007b')
\*     .replaceAll('}', '\\u007d')
escapeText(part) ==
  Concat([i \in 1..Len(part) |->
            IF part[i] = "\\" THEN <<"\\", "\\">>
            ELSE IF part[i] = "{" THEN <<"\\", "u", "0", "0", "7", "b">>
            ELSE IF part[i] = "}" THEN <<"\\", "u", "0", "0", "7", "d">>
            ELSE <<part[i]>>])

RECURSIVE serializeParts(_, _, _)
\* the loop of fluentSerializePattern with a sink that collects: the text
\* built and the errors handed to onError, each with pos set
serializeParts(pattern, str, errors) ==
  LET step(part, e) ==
        IF isString(part)
        THEN serializeParts(Tail(pattern), str \o escapeText(part.s), errors)
        ELSE IF e.ok
        THEN serializeParts(Tail(pattern),
                            str \o <<"{", " ">> \o e.value \o <<" ", "}">>, errors)
        ELSE serializeParts(Tail(pattern), str \o ERROR_RESULT,
                            Append(errors, [e.error EXCEPT !.pos = Len(str)]))
  IN IF pattern = <<>> THEN [str |-> str, errs |-> errors]
     ELSE step(Head(pattern), expression(Head(pattern), FALSE))

\* the same text with the errors as expression() threw them, pos not set;
\* what fluentSerializePattern is told apart from
fluentSerializeUnplaced(pattern) ==
  LET r == serializeParts(pattern, <<>>, <<>>)
  IN [r EXCEPT !.errs = [i \in 1..Len(r.errs) |-> [r.errs[i] EXCEPT !.pos = NoPos]]]

fluentSerializePattern(pattern) == serializeParts(pattern, <<>>, <<>>)

\* fluentSerializePattern with the onError of fluentSerializeMessage, which
\* throws the error it is handed
serializePatternOrThrow(pattern) ==
  LET strict(r) == IF r.errs # <<>> THEN Throw(r.errs[1]) ELSE Ok(r.str)
  IN strict(fluentSerializePattern(pattern))

HexDigits == Digits \cup {"a", "b", "c", "d", "e", "f", "A", "B", "C", "D", "E", "F"}

\* !isNaN(Number(k)) for a string k: the StringNumericLiteral grammar
jsNumeric(k) ==
  LET t == TrimEnd(k)
      unsigned(s) == IF s # <<>> /\ s[1] \in {"+", "-"} THEN Tail(s) ELSE s
      allDigits(s) == s # <<>> /\ \A i \in 1..Len(s) : s[i] \in Digits
      isMantissa(s) ==
        \/ allDigits(s)
        \/ /\ Len(s) > 1
           /\ \E i \in 1..Len(s) :
                s[i] = "." /\ \A j \in 1..Len(s) : j # i => s[j] \in Digits
      body == unsigned(t)
  IN \/ t = <<>>
     \/ isMantissa(body)
     \/ body = <<"I", "n", "f", "i", "n", "i", "t", "y">>
     \/ \E i \in 2..(Len(body) - 1) :
          /\ body[i] \in {"e", "E"}
          /\ isMantissa(Take(body, i - 1))
          /\ allDigits(unsigned(Drop(body, i)))
     \/ /\ Len(t) > 2
        /\ t[1] = "0"
        /\ t[2] \in {"x", "X"}
        /\ \A i \in 3..Len(t) : t[i] \in HexDigits

\* a key of a Variant of the data model: a string, or a CatchallKey whose
\* '*' property is name
Key(name) == [name |-> name, catchall |-> FALSE]
CatchallKey(name) == [name |-> name, catchall |-> TRUE]

RECURSIVE nextFree(_, _, _)
\* the while loop of fallbackName
nextFree(keys, key, i) ==
  IF \E v \in keys : v = key
  THEN nextFree(keys, <<"o", "t", "h", "e", "r">> \o DecimalOf(i + 1), i + 1)
  ELSE key

\* a fallback that does not look at the keys; what fallbackName is told
\* apart from
fallbackRoot(m) == <<"o", "t", "h", "e", "r">>

fallbackName(m) ==
  LET keys == UNION {{m.alt[i].keys[j].name : j \in 1..Len(m.alt[i].keys)} :
                      i \in 1..Len(m.alt)}
  IN nextFree(keys, <<"o", "t", "h", "e", "r">>, 0)

\* variant(key, other, pattern) of fluent-serialize.ts
variant(key, other, pattern) ==
  LET k == IF ~key.catchall THEN key.name
           ELSE IF key.name # <<>> THEN key.name ELSE other
      d == IF ~key.catchall THEN " " ELSE "*"
      pre == <<" ", " ", " ", d, "[">> \o k \o <<"]">>
      trimmed == TrimEnd(Concat(pattern))
      value == IF trimmed # <<>> THEN trimmed ELSE <<"{", " ", "\"", "\"", " ", "}">>
      \* /^[a-zA-Z][\w-]*$/
      isKeyName == /\ k # <<>>
                   /\ k[1] \in Letters
                   /\ \A i \in 2..Len(k) : k[i] \in WordChars \cup {"-"}
  IN IF ~jsNumeric(k) /\ ~isKeyName
     THEN Throw(SerializeError("", "Unsupported variant key", NoPos))
     ELSE IF Includes(value, "\n")
     THEN Ok(pre \o <<"\n">> \o IndentLines(value, 8) \o <<"\n">>)
     ELSE Ok(pre \o <<" ">> \o value \o <<"\n">>)

\* the value of a missing property of decl
NoDecl == [k |-> "undefined"]

\* message.decl[selName]
declOf(m, selName) ==
  LET hits == {i \in 1..Len(m.decl) : m.decl[i][1] = selName}
  IN IF hits = {} THEN NoDecl
     ELSE m.decl[CHOOSE i \in hits : \A j \in hits : j <= i][2]

\* the selector text of one pass of fluentSerializeMessage
selectorOf(selExpr) ==
  IF /\ isIdentifier(selExpr.var)
     /\ selExpr.opt = NoOpt
     /\ selExpr.fn \in {FnNumber, FnString}
  THEN Ok(<<"$">> \o selExpr.var)
  ELSE expression(selExpr, TRUE)

RECURSIVE foldVariants(_, _, _, _, _, _)
\* the inner while loop of fluentSerializeMessage.  selPattern, when set,
\* is the pattern array of variants[i - 1].
foldVariants(variants, i, baseKeys, open, selector, other) ==
  LET close(vs) == IF open
                   THEN [vs EXCEPT ![i - 1].pattern = Append(@, <<"}">>)]
                   ELSE vs
      step(keys, varBody) ==
        IF ~varBody.ok THEN [ok |-> FALSE, error |-> varBody.error]
        ELSE IF open /\ keys = baseKeys
        THEN foldVariants(
               [j \in 1..(Len(variants) - 1) |->
                  IF j = i - 1
                  THEN [variants[j] EXCEPT !.pattern = Append(@, varBody.value)]
                  ELSE IF j < i THEN variants[j] ELSE variants[j + 1]],
               i, baseKeys, open, selector, other)
        ELSE foldVariants(
               [close(variants) EXCEPT ![i] =
                  [keys |-> keys,
                   pattern |-> << <<"{", " ">> \o selector
                                  \o <<" ", "-", ">", "\n">> \o varBody.value >>]],
               i + 1, keys, TRUE, selector, other)
  IN IF i > Len(variants) THEN [ok |-> TRUE, variants |-> close(variants)]
     ELSE IF variants[i].keys = <<>>
     THEN [ok |-> FALSE, error |-> OtherError("TypeError")]
     ELSE step(Front(variants[i].keys),
               variant(Last(variants[i].keys), other, variants[i].pattern))

RECURSIVE foldSelectors(_, _, _)
\* the outer while loop of fluentSerializeMessage, on keys0 = variants[0][0]
foldSelectors(m, variants, other) ==
  LET next(pass) == IF ~pass.ok THEN pass
                    ELSE foldSelectors(m, pass.variants, other)
      fold(selector) ==
        IF ~selector.ok THEN [ok |-> FALSE, error |-> selector.error]
        ELSE next(foldVariants(variants, 1, Undef, FALSE, selector.value, other))
      pick(selExpr) ==
        IF selExpr = NoDecl THEN [ok |-> FALSE, error |-> OtherError("TypeError")]
        ELSE fold(selectorOf(selExpr))
      n == Len(variants[1].keys)
  IN IF n = 0 THEN [ok |-> TRUE, variants |-> variants]
     ELSE pick(IF n <= Len(m.sel) THEN declOf(m, m.sel[n]) ELSE NoDecl)

\* fluentSerializeMessage(message); what it returns, or the error it throws
fluentSerializeMessage(m) ==
  LET join(folded) ==
        IF ~folded.ok THEN Throw(folded.error)
        ELSE IF Len(folded.variants) # 1
        THEN Throw(SerializeError("",
               "Error resolving select message variants", NoPos))
        ELSE Ok(Concat(folded.variants[1].pattern))
      fold(pats) ==
        LET bad == {i \in 1..Len(pats) : ~pats[i].ok} IN
        IF bad # {} THEN Throw(pats[Min(bad)].error)
        ELSE IF m.alt = <<>> THEN Throw(OtherError("TypeError"))
        ELSE join(foldSelectors(m, [i \in 1..Len(m.alt) |->
                                      [keys |-> m.alt[i].keys,
                                       pattern |-> <<pats[i].value>>]],
                                fallbackName(m)))
  IN IF m.type = "pattern" THEN serializePatternOrThrow(m.pat)
     ELSE fold([i \in 1..Len(m.alt) |-> serializePatternOrThrow(m.alt[i].pat)])

\* fluentSerializeEntry(id, entry) for an entry without attributes
fluentSerializeEntry(id, m) ==
  LET isTerm == id # <<>> /\ id[1] = "-"
      entry(msgStr) ==
        IF ~msgStr.ok THEN msgStr
        ELSE IF msgStr.value # <<>>
        THEN IF Includes(msgStr.value, "\n")
             THEN Ok(id \o <<" ", "=", "\n">> \o IndentLines(msgStr.value, 4) \o <<"\n">>)
             ELSE Ok(id \o <<" ", "=", " ">> \o msgStr.value \o <<"\n">>)
        ELSE Ok(id \o <<" ", "=", " ", "{", " ", "\"", "\"", " ", "}", "\n">>)
  IN IF ~isIdentifier(IF isTerm THEN Tail(id) ELSE id)
     THEN Throw(SerializeError("", "Unsupported message identifier", NoPos))
     ELSE entry(fluentSerializeMessage(m))

(***************************************************************************)
(* The grammar engine: new FluentParser().parseEntry(src) of               *)
(* @fluent/syntax, for entries made of an identifier, '=', and a pattern   *)
(* of text, placeables holding a variable reference, a string literal or a *)
(* number literal, and select expressions.  Positions are 1-based indices  *)
(* into src; the position after the last character is the end of input.    *)
(***************************************************************************)
EOF == "EOF"
EOL == "\n"

\* ps.currentChar() at position p
charAt(s, p) == IF p >= 1 /\ p <= Len(s) THEN s[p] ELSE EOF

\* the first position from p on whose character is not in set
skipWhile(s, p, set) ==
  Min({i \in p..(Len(s) + 1) : i > Len(s) \/ s[i] \notin set})

\* the first position from p on whose character is in set, or the end
skipUntil(s, p, set) ==
  Min({i \in p..(Len(s) + 1) : i > Len(s) \/ s[i] \in set})

skipBlankInline(s, p) == skipWhile(s, p, {" "})
skipBlank(s, p) == skipWhile(s, p, {" ", EOL})

Fail(code) == [ok |-> FALSE, code |-> code]
\* a failure with the position the stream stands at when the error is thrown
FailAt(code, pos) == [ok |-> FALSE, code |-> code, pos |-> pos]

\* peekBlankBlock: the blank lines from p on; pos is the start of the first
\* line that is not blank
peekBlankBlock(s, p) ==
  LET q == skipBlank(s, p)
      nl == {i \in p..(q - 1) : s[i] = EOL}
  IN [blank |-> Cardinality(nl),
      pos |-> IF q > Len(s) THEN q ELSE IF nl = {} THEN p ELSE Max(nl) + 1]

\* isValueContinuation with the peek at the start of a line
isValueContinuation(s, lineStart) ==
  LET q == skipBlankInline(s, lineStart)
      c == charAt(s, q)
  IN \/ c = "{"
     \/ q > lineStart /\ c \notin {"}", ".", "[", "*", EOF}

\* getIdentifier: [a-zA-Z][a-zA-Z0-9_-]*
getIdentifier(s, p) ==
  IF charAt(s, p) \notin Letters THEN FailAt("E0004", p)
  ELSE LET e == skipWhile(s, p, WordChars \cup {"-"})
       IN [ok |-> TRUE, pos |-> e, name |-> SubSeq(s, p, e - 1)]

\* getNumber: -?[0-9]+(\.[0-9]+)?
getNumber(s, p) ==
  LET d0 == IF charAt(s, p) = "-" THEN p + 1 ELSE p
      d1 == skipWhile(s, d0, Digits)
      f1 == skipWhile(s, d1 + 1, Digits)
  IN IF d1 = d0 THEN FailAt("E0004", d0)
     ELSE IF charAt(s, d1) # "."
     THEN [ok |-> TRUE, pos |-> d1, value |-> SubSeq(s, p, d1 - 1)]
     ELSE IF f1 = d1 + 1 THEN FailAt("E0004", f1)
     ELSE [ok |-> TRUE, pos |-> f1, value |-> SubSeq(s, p, f1 - 1)]

\* the number of backslashes that end at position i
backslashRun(s, i) ==
  i - Max({j \in 0..i : j = 0 \/ s[j] # "\\"})

RECURSIVE unescape(_)
\* StringLiteral.parse().value: the escapes \\, \" and \uXXXX of the raw
\* value replaced by the characters they stand for
unescape(raw) ==
  LET b == skipUntil(raw, 1, {"\\"})
  IN IF b > Len(raw) THEN raw
     ELSE IF charAt(raw, b + 1) = "u"
     THEN Take(raw, b - 1)
          \o <<fromCharCode(parseDigits(SubSeq(raw, b + 2, b + 5), 16))>>
          \o unescape(Drop(raw, b + 5))
     ELSE Take(raw, b - 1) \o <<raw[b + 1]>> \o unescape(Drop(raw, b + 1))

\* getString: a quoted literal read up to the first of: the closing quote,
\* a line end (E0020), the end of input (E0003), an unknown escape (E0025),
\* a \u escape with fewer than four hex digits (E0026)
getString(s, p) ==
  LET escapeAt(i) == s[i] = "\\" /\ backslashRun(s, i) % 2 = 1
      badHex(i) == {j \in (i + 2)..(i + 5) : charAt(s, j) \notin HexDigits}
      unknown(i) == escapeAt(i) /\ charAt(s, i + 1) \notin {"\\", "\"", "u"}
      short(i) == escapeAt(i) /\ charAt(s, i + 1) = "u" /\ badHex(i) # {}
      closes(i) == s[i] = "\"" /\ backslashRun(s, i - 1) % 2 = 0
      stop == Min({i \in (p + 1)..(Len(s) + 1) :
                     i > Len(s) \/ s[i] = EOL \/ closes(i) \/ unknown(i) \/ short(i)})
  IN IF stop > Len(s) THEN FailAt("E0003", stop)
     ELSE IF s[stop] = EOL THEN FailAt("E0020", stop)
     ELSE IF unknown(stop) THEN FailAt("E0025", stop + 1)
     ELSE IF short(stop) THEN FailAt("E0026", Min(badHex(stop)))
     ELSE [ok |-> TRUE, pos |-> stop + 1, value |-> unescape(SubSeq(s, p + 1, stop - 1))]

\* getInlineExpression, for the expressions modelled
getInlineExpression(s, p) ==
  LET c == charAt(s, p)
      variable(id) ==
        IF id.ok THEN [ok |-> TRUE, pos |-> id.pos, e |-> VariableReference(id.name)]
        ELSE id
      string(str) ==
        IF str.ok THEN [ok |-> TRUE, pos |-> str.pos, e |-> StringLiteral(str.value)]
        ELSE str
      number(num) ==
        IF num.ok THEN [ok |-> TRUE, pos |-> num.pos, e |-> NumberLiteral(num.value)]
        ELSE num
  IN IF c = "$" THEN variable(getIdentifier(s, p + 1))
     ELSE IF c = "\"" THEN string(getString(s, p))
     ELSE IF c \in Digits \/ (c = "-" /\ charAt(s, p + 1) \in Digits)
     THEN number(getNumber(s, p))
     ELSE FailAt("E0028", p)

\* the elements getPattern collects before dedent
Indent(nl, sp) == [type |-> "Indent", nl |-> nl, sp |-> sp]

RECURSIVE dedent(_, _, _)
\* dedent(elements, commonIndent) without the final trim: the indents cut,
\* the empty ones dropped, adjacent text joined
dedent(elements, commonIndent, trimmed) ==
  IF elements = <<>> THEN trimmed
  ELSE LET el == Head(elements) IN
       IF el.type = "Placeable" THEN dedent(Tail(elements), commonIndent, Append(trimmed, el))
       ELSE LET len == IF el.type = "Indent" THEN el.nl + el.sp - commonIndent ELSE 0
                value == IF el.type = "TextElement" THEN el.value
                         ELSE IF len <= 0 THEN <<>>
                         ELSE IF len <= el.nl THEN [i \in 1..len |-> EOL]
                         ELSE [i \in 1..el.nl |-> EOL] \o Spaces(len - el.nl)
            IN IF el.type = "Indent" /\ value = <<>>
               THEN dedent(Tail(elements), commonIndent, trimmed)
               ELSE IF trimmed # <<>> /\ Last(trimmed).type = "TextElement"
               THEN dedent(Tail(elements), commonIndent,
                           Append(Front(trimmed), TextElement(Last(trimmed).value \o value)))
               ELSE dedent(Tail(elements), commonIndent,
                           Append(trimmed, TextElement(value)))

\* the end of dedent: value.replace(/[ \n\r]+$/, '') on a last TextElement
trimPattern(trimmed) ==
  LET trimTrailingWS(value) ==
        LET keep == {i \in 1..Len(value) : value[i] \notin {" ", EOL}}
        IN IF keep = {} THEN <<>> ELSE Take(value, Max(keep))
      last(value) == IF value = <<>> THEN Front(trimmed)
                     ELSE Append(Front(trimmed), TextElement(value))
  IN IF trimmed # <<>> /\ Last(trimmed).type = "TextElement"
     THEN last(trimTrailingWS(Last(trimmed).value))
     ELSE trimmed

RECURSIVE getElements(_, _, _, _)
RECURSIVE getPlaceable(_, _)
RECURSIVE getVariantList(_, _, _, _)
RECURSIVE maybeGetPattern(_, _)

\* the loop of getPattern: the elements from p on and the common indent
getElements(s, p, elements, commonIndent) ==
  LET c == charAt(s, p)
      done == [ok |-> TRUE, pos |-> p, elements |-> elements,
               commonIndent |-> commonIndent]
      line(bb, q) ==
        IF isValueContinuation(s, bb.pos)
        THEN getElements(s, q, Append(elements, Indent(bb.blank, q - bb.pos)),
                         IF q - bb.pos < commonIndent THEN q - bb.pos ELSE commonIndent)
        ELSE done
      placeable(pl) ==
        IF pl.ok THEN getElements(s, pl.pos, Append(elements, Placeable(pl.e)), commonIndent)
        ELSE pl
      run(e) ==
        getElements(s, e, Append(elements, TextElement(SubSeq(s, p, e - 1))), commonIndent)
  IN CASE c = EOF -> done
       [] c = EOL -> line(peekBlankBlock(s, p), skipBlankInline(s, peekBlankBlock(s, p).pos))
       [] c = "{" -> placeable(getPlaceable(s, p))
       [] c = "}" -> Fail("E0027")
       [] OTHER -> run(skipUntil(s, p, {"{", "}", EOL}))

\* getPattern(ps, isBlock)
getPattern(s, p, isBlock) ==
  LET q == IF isBlock THEN skipBlankInline(s, p) ELSE p
      pattern(els) ==
        IF els.ok
        THEN [ok |-> TRUE, pos |-> els.pos, null |-> FALSE,
              elements |-> trimPattern(dedent(els.elements, els.commonIndent, <<>>))]
        ELSE els
  IN pattern(getElements(s, q, IF isBlock THEN <<Indent(0, q - p)>> ELSE <<>>,
                         IF isBlock THEN q - p ELSE Len(s) + 1))

maybeGetPattern(s, p) ==
  LET q == skipBlankInline(s, p)
      inline == charAt(s, q) \notin {EOL, EOF}
      start == IF inline THEN q ELSE peekBlankBlock(s, q).pos
  IN IF inline \/ isValueContinuation(s, start) THEN getPattern(s, start, ~inline)
     ELSE [ok |-> TRUE, pos |-> p, null |-> TRUE, elements |-> <<>>]

\* getVariantKey
getVariantKey(s, p) ==
  LET c == charAt(s, p)
      number(num) ==
        IF num.ok
        THEN [ok |-> TRUE, pos |-> num.pos, keyType |-> "NumberLiteral", name |-> num.value]
        ELSE num
      identifier(id) ==
        IF id.ok
        THEN [ok |-> TRUE, pos |-> id.pos, keyType |-> "Identifier", name |-> id.name]
        ELSE id
  IN IF c = EOF THEN Fail("E0013")
     ELSE IF c \in Digits \cup {"-"} THEN number(getNumber(s, p))
     ELSE identifier(getIdentifier(s, p))

\* getVariant(ps, hasDefault)
getVariant(s, p, hasDefault) ==
  LET star == charAt(s, p) = "*"
      p1 == IF star THEN p + 1 ELSE p
      valued(key, value) ==
        IF ~value.ok THEN value
        ELSE IF value.null THEN Fail("E0012")
        ELSE [ok |-> TRUE, pos |-> value.pos,
              variant |-> Variant(key.keyType, key.name, star, value.elements)]
      keyed(key) ==
        IF ~key.ok THEN key
        ELSE IF charAt(s, skipBlank(s, key.pos)) # "]" THEN Fail("E0003")
        ELSE valued(key, maybeGetPattern(s, skipBlank(s, key.pos) + 1))
  IN IF star /\ hasDefault THEN Fail("E0015")
     ELSE IF charAt(s, p1) # "[" THEN Fail("E0003")
     ELSE keyed(getVariantKey(s, skipBlank(s, p1 + 1)))

\* the loop of getVariants
getVariantList(s, p, variants, hasDefault) ==
  LET next(v) ==
        IF ~v.ok THEN v
        ELSE IF charAt(s, v.pos) \notin {EOL, EOF} THEN Fail("E0003")
        ELSE getVariantList(s, skipBlank(s, v.pos), Append(variants, v.variant),
                            hasDefault \/ v.variant.default)
      isVariantStart == \/ charAt(s, p) = "["
                        \/ charAt(s, p) = "*" /\ charAt(s, p + 1) = "["
  IN IF isVariantStart THEN next(getVariant(s, p, hasDefault))
     ELSE IF variants = <<>> THEN Fail("E0011")
     ELSE IF ~hasDefault THEN Fail("E0010")
     ELSE [ok |-> TRUE, pos |-> p, variants |-> variants]

\* getExpression: an inline expression, or a select expression whose node
\* identity is the position of its selector
getExpression(s, p) ==
  LET select(selector, vs) ==
        IF ~vs.ok THEN vs
        ELSE [ok |-> TRUE, pos |-> vs.pos,
              e |-> SelectExpression(p, selector.e, vs.variants)]
      inline(selector, r) ==
        IF ~selector.ok THEN selector
        ELSE IF charAt(s, r) = "-" /\ charAt(s, r + 1) = ">"
        THEN IF charAt(s, skipBlankInline(s, r + 2)) \notin {EOL, EOF} THEN Fail("E0003")
             ELSE select(selector, getVariantList(s, skipBlank(s, r + 2), <<>>, FALSE))
        ELSE [ok |-> TRUE, pos |-> r, e |-> selector.e]
      after(selector) == inline(selector, IF selector.ok THEN skipBlank(s, selector.pos) ELSE p)
  IN after(getInlineExpression(s, p))

getPlaceable(s, p) ==
  LET placeable(expr) ==
        IF ~expr.ok THEN expr
        ELSE IF charAt(s, expr.pos) # "}" THEN Fail("E0003")
        ELSE [ok |-> TRUE, pos |-> expr.pos + 1, e |-> expr.e]
  IN placeable(getExpression(s, skipBlank(s, p + 1)))

\* FluentParser.parseEntry(src) for a message: the elements of its value,
\* or the code of the annotation of the Junk it returns
parseEntry(src) ==
  LET valued(id, value) ==
        IF ~value.ok THEN value
        ELSE IF value.null THEN Fail("E0005")
        ELSE IF charAt(src, value.pos) \notin {EOL, EOF} THEN Fail("E0003")
        ELSE [ok |-> TRUE, id |-> id.name, elements |-> value.elements]
      named(id) ==
        IF ~id.ok THEN id
        ELSE IF charAt(src, skipBlankInline(src, id.pos)) # "=" THEN Fail("E0003")
        ELSE valued(id, maybeGetPattern(src, skipBlankInline(src, id.pos) + 1))
  IN named(getIdentifier(src, 1))

(***************************************************************************)
(* Fluent source entries.  A source is the text of a list of elements      *)
(* (text, placeables, select expressions on a variable), written in the    *)
(* layout of the entries of fluent.test.ts.                                *)
(***************************************************************************)
RECURSIVE ftl(_)
\* the source text of a list of elements
ftl(elements) ==
  LET variants(vs) ==
        Concat([j \in 1..Len(vs) |->
                  <<" ", " ", IF vs[j].default THEN "*" ELSE " ", "[">> \o vs[j].name
                  \o <<"]", " ">> \o ftl(vs[j].value) \o <<EOL>>])
      simple(e) ==
        CASE e.type = "VariableReference" -> <<"$">> \o e.name
          [] e.type = "StringLiteral" -> <<"\"">> \o e.value \o <<"\"">>
          [] e.type = "NumberLiteral" -> e.value
      inline(e) ==
        IF e.type = "SelectExpression"
        THEN simple(e.selector) \o <<" ", "-", ">", EOL>> \o variants(e.variants)
        ELSE simple(e)
  IN Concat([i \in 1..Len(elements) |->
               IF elements[i].type = "TextElement" THEN elements[i].value
               ELSE <<"{", " ">> \o inline(elements[i].expression) \o <<" ", "}">>])

MsgId == <<"m", "s", "g">>

\* the source entry of a list of elements
ftlEntry(elements) == MsgId \o <<" ", "=", " ">> \o ftl(elements) \o <<EOL>>

\* the key lists of the select expressions written: <<key, default>>
KeyListPool ==
  << << <<<<"o", "n", "e">>, FALSE>>, <<<<"o", "t", "h", "e", "r">>, TRUE>> >>,
     << <<<<"1">>, FALSE>>, <<<<"2">>, TRUE>> >>,
     << <<<<"b", "b">>, TRUE>>, <<<<"c", "c">>, FALSE>> >>,
     << <<<<"o", "n", "e">>, TRUE>>, <<<<"o", "t", "h", "e", "r">>, FALSE>> >>,
     << <<<<"0">>, FALSE>>, <<<<"o", "n", "e">>, FALSE>>,
        <<<<"o", "t", "h", "e", "r">>, TRUE>> >> >>

\* how many of the key lists are written
NumKeyLists == 4

\* the text of variant j of the first and of the second select expression
Label1 == <<"A", "B", "C">>
Label2 == <<"X", "Y", "Z">>

\* the values a variant is given: text, text and a placeholder, text with
\* a backslash, a quoted literal that reads as a number, an empty literal
Style(style, label) ==
  CASE style = 1 -> <<TextElement(label)>>
    [] style = 2 -> <<TextElement(label \o <<" ">>), Placeable(VariableReference(<<"n">>))>>
    [] style = 3 -> <<TextElement(label \o <<"\\">>)>>
    [] style = 4 -> <<Placeable(StringLiteral(<<"5">>))>>
    [] OTHER -> <<Placeable(StringLiteral(<<>>))>>

\* how many of the styles are written
NumStyles == 4

\* variant j of key list k, with a value
variantOf(k, j, value) ==
  Variant(IF KeyListPool[k][j][1][1] \in Digits THEN "NumberLiteral" ELSE "Identifier",
          KeyListPool[k][j][1], KeyListPool[k][j][2], value)

\* a select expression on var with key list k; its variants have the
\* texts of labels, the first in style
selectOn(var, k, style, labels) ==
  Placeable(SelectExpression(0, VariableReference(var),
    [j \in 1..Len(KeyListPool[k]) |->
       variantOf(k, j, IF j = 1 THEN Style(style, <<labels[j]>>)
                       ELSE <<TextElement(<<labels[j]>>)>>)]))

\* a select expression on var1 whose variants hold a select expression on
\* var2: in every variant (1), in the first variant alone (2), in every
\* variant but with the default alone in the first (3), in the first
\* variant alone and with text after it (4)
nestingOn(var1, k1, var2, k2, mode) ==
  LET nested(j) ==
        LET all == [i \in 1..Len(KeyListPool[k2]) |->
                      variantOf(k2, i, <<TextElement(<<Label1[j], Label2[i]>>)>>)]
        IN Placeable(SelectExpression(0, VariableReference(var2),
             IF mode = 3 /\ j = 1 THEN SelectSeq(all, LAMBDA v : v.default) ELSE all))
  IN Placeable(SelectExpression(0, VariableReference(var1),
       [j \in 1..Len(KeyListPool[k1]) |->
          variantOf(k1, j, IF mode \in {2, 4} /\ j > 1 THEN <<TextElement(<<Label1[j]>>)>>
                           ELSE IF mode = 4
                           THEN <<nested(j), TextElement(<<" ", "e", "n", "d">>)>>
                           ELSE <<nested(j)>>)]))

\* a select expression on any selector with key list k; its first variant
\* has the value first
selectBy(selector, k, first) ==
  Placeable(SelectExpression(0, selector,
    [j \in 1..Len(KeyListPool[k]) |->
       variantOf(k, j, IF j = 1 THEN first ELSE <<TextElement(<<Label2[j]>>)>>)]))

\* the selectors and the placeholders of the entries that need names
NamedSelectors ==
  {VariableReference(<<"a">>), VariableReference(<<"a", "_", "1">>),
   StringLiteral(<<"x">>), StringLiteral(<<"y">>)}
NamedPlaceholders ==
  {<<>>, <<Placeable(VariableReference(<<"a">>))>>,
   <<Placeable(VariableReference(<<"a">>)),
     Placeable(VariableReference(<<"a", "_", "1">>))>>}

\* entries whose selectors meet placeholders and selectors of their name,
\* as in the tests num-has-placeholder and term-attr-sel
NamingSources ==
  {ftlEntry(<<selectBy(s1, k1, <<TextElement(<<"A">>)>> \o ph)>>) :
     s1 \in NamedSelectors, k1 \in {1, 3}, ph \in NamedPlaceholders}
  \cup {ftlEntry(<<selectBy(s1, 1, <<TextElement(<<"A">>)>> \o ph),
                   selectBy(s2, k2, <<TextElement(<<"B">>)>>)>>) :
          s1 \in NamedSelectors, s2 \in NamedSelectors, k2 \in {1, 3},
          ph \in NamedPlaceholders}
  \cup {ftlEntry(<<selectBy(VariableReference(<<"a">>), 1, <<TextElement(<<"A">>)>>),
                   selectBy(VariableReference(<<"a">>), 3, <<TextElement(<<"B">>)>>),
                   selectBy(VariableReference(<<"a", "_", "1">>), k3,
                            <<TextElement(<<"C">>)>>)>>) : k3 \in {1, 3}}

Sources ==
  {ftlEntry(Style(style, <<"A">>)) : style \in 1..NumStyles}
  \cup {ftlEntry(pre \o <<selectOn(<<"a">>, k, style, Label1)>>) :
          pre \in {<<>>, <<TextElement(<<"p", "r", "e", " ">>)>>},
          k \in 1..NumKeyLists, style \in 1..NumStyles}
  \cup {ftlEntry(<<selectOn(<<"a">>, k1, 1, Label1)>> \o mid
                 \o <<selectOn(var2, k2, 1, Label2)>>) :
          k1 \in 1..NumKeyLists, k2 \in 1..NumKeyLists, var2 \in {<<"a">>, <<"b">>},
          mid \in {<<>>, <<TextElement(<<" ", "m", "i", "d", " ">>)>>}}
  \cup {ftlEntry(<<nestingOn(<<"a">>, k1, var2, k2, mode)>>) :
          k1 \in 1..NumKeyLists, k2 \in 1..NumKeyLists, var2 \in {<<"a">>, <<"b">>},
          mode \in 1..4}
  \cup NamingSources

(***************************************************************************)
(* SelectMessages built by a caller rather than parsed: their catchall     *)
(* keys may have no name of their own, {'*': ''}.                          *)
(***************************************************************************)
Other == <<"o", "t", "h", "e", "r">>

\* the explicit keys of a selector
HandKeyPool ==
  << <<>>, <<Other>>, <<Other, Other \o <<"1">>>>, <<<<"o", "n", "e">>>>,
     <<Other \o <<"1">>>>, <<<<"o", "n", "e">>, Other>>,
     <<Other, Other \o <<"1">>, Other \o <<"2">>>> >>

\* how many of the explicit key lists are used
NumHandKeyLists == 6

\* one selector: a variant per explicit key, then the catchall variant
handMade1(k, c) ==
  LET keys == [i \in 1..Len(HandKeyPool[k]) |-> Key(HandKeyPool[k][i])]
                \o <<CatchallKey(c)>>
  IN [type |-> "select",
      decl |-> << <<<<"a">>, Expr(Undef, <<"a">>, FnString, NoOpt)>> >>,
      sel |-> << <<"a">> >>,
      alt |-> [i \in 1..Len(keys) |->
                 [keys |-> <<keys[i]>>, pat |-> <<Str(<<Label1[1], DecimalOf(i)[1]>>)>>]]]

\* two selectors: the variants of the full matrix, in row-major order
handMade2(k1, c1, k2, c2) ==
  LET keys1 == [i \in 1..Len(HandKeyPool[k1]) |-> Key(HandKeyPool[k1][i])]
                 \o <<CatchallKey(c1)>>
      keys2 == [i \in 1..Len(HandKeyPool[k2]) |-> Key(HandKeyPool[k2][i])]
                 \o <<CatchallKey(c2)>>
      n2 == Len(keys2)
  IN [type |-> "select",
      decl |-> << <<<<"a">>, Expr(Undef, <<"a">>, FnString, NoOpt)>>,
                  <<<<"b">>, Expr(Undef, <<"b">>, FnString, NoOpt)>> >>,
      sel |-> << <<"a">>, <<"b">> >>,
      alt |-> [i \in 1..(Len(keys1) * n2) |->
                 [keys |-> <<keys1[((i - 1) \div n2) + 1], keys2[((i - 1) % n2) + 1]>>,
                  pat |-> <<Str(<<Label1[1], DecimalOf(i)[1]>>)>>]]]

HandMade ==
  {handMade1(k, c) : k \in 1..NumHandKeyLists, c \in {<<>>, Other, <<"x">>}}
  \cup {handMade2(k1, c1, k2, c2) : k1 \in 1..3, c1 \in {<<>>, Other},
                                    k2 \in 1..3, c2 \in {<<>>, Other}}

\* message.alt without its row r
dropRow(m, r) ==
  [m EXCEPT !.alt = [i \in 1..(Len(m.alt) - 1) |->
                       IF i < r THEN m.alt[i] ELSE m.alt[i + 1]]]

\* row r of message.alt with its last key taken away
shortRow(m, r) == [m EXCEPT !.alt[r].keys = Front(@)]

\* row r of message.alt with key appended
longRow(m, r, key) == [m EXCEPT !.alt[r].keys = Append(@, key)]

\* SelectMessages built by a caller with a row missing, or with a row that
\* has fewer or more keys than there are selectors
\* message.alt with its rows r1 and r2 in each other's place
swapRows(m, r1, r2) ==
  [m EXCEPT !.alt = [i \in 1..Len(m.alt) |->
                       IF i = r1 THEN m.alt[r2]
                       ELSE IF i = r2 THEN m.alt[r1] ELSE m.alt[i]]]

\* messages of two selectors whose rows are not in row-major order
Reordered ==
  UNION {{swapRows(m, r1, r2) : r1 \in 1..Len(m.alt), r2 \in 2..3} :
           m \in {handMade2(k1, Other, k2, c2) :
                    k1 \in 2..3, k2 \in 2..3, c2 \in {<<>>, Other}}}

Malformed ==
  LET whole == {handMade1(k, c) : k \in 1..3, c \in {<<>>, Other}}
               \cup {handMade2(k1, Other, k2, c2) :
                       k1 \in 1..3, k2 \in 1..3, c2 \in {<<>>, Other}}
  IN UNION {{dropRow(m, r) : r \in 1..Len(m.alt)}
            \cup {shortRow(m, r) : r \in 1..Len(m.alt)}
            \cup {longRow(m, r, key) : r \in 1..Len(m.alt),
                                       key \in {Key(<<"x">>), CatchallKey(<<>>)}} :
            m \in whole}

\* no message yet
NoMsg == [type |-> "none"]

\* how many times an entry is normalized
MaxRounds == 2

\* no call without a sink yet
NoCall == [op |-> "none", out |-> [ok |-> TRUE]]

(***************************************************************************)
(* Fluent entries: a source entry, or a message built by a caller, goes    *)
(* through fluentParseEntry and fluentSerializeEntry in turn.              *)
(***************************************************************************)
InitFluent ==
  /\ \/ /\ pc = "source"
        /\ text \in Sources
        /\ msg = NoMsg
     \/ /\ pc = "normalized"
        /\ text = <<>>
        /\ msg \in HandMade \cup Malformed \cup Reordered
  /\ round = 0
  /\ ast = <<>>
  /\ prevMsg = NoMsg
  /\ call = [format |-> "entry", base |-> {}]
  /\ ret = Ok(<<>>)
  /\ errs = <<>>
  /\ orig = <<>>
  /\ strictRet = NoCall
  /\ _xmlEntityKey = 0
  /\ xmlEntityKey = 0

\* fluentParseEntry(text)
ParseEntry ==
  /\ call.format = "entry"
  /\ pc \in {"source", "serialized"}
  /\ round < MaxRounds
  /\ round' = round + 1
  /\ LET parsed(entry) ==
           IF entry.ok
           THEN /\ ast' = entry.elements
                /\ msg' = message(entry.elements)
                /\ prevMsg' = msg
                /\ pc' = "normalized"
                /\ ret' = Ok(<<>>)
           ELSE /\ pc' = "parse_failed"
                /\ ret' = Throw(ParseError("fluent", entry.code, 0, Len(text)))
                /\ UNCHANGED <<ast, msg, prevMsg>>
     IN parsed(parseEntry(text))
  /\ UNCHANGED <<text, call, errs, orig, strictRet, _xmlEntityKey, xmlEntityKey>>

\* fluentSerializeEntry(id, {'=': msg})
SerializeEntry ==
  /\ call.format = "entry"
  /\ pc = "normalized"
  /\ LET serialized(res) ==
           IF res.ok
           THEN /\ text' = res.value
                /\ pc' = "serialized"
                /\ ret' = Ok(<<>>)
           ELSE /\ pc' = "serialize_failed"
                /\ ret' = Throw(res.error)
                /\ UNCHANGED text
     IN serialized(fluentSerializeEntry(MsgId, msg))
  /\ UNCHANGED <<round, ast, msg, prevMsg, call, errs, orig, strictRet,
                 _xmlEntityKey, xmlEntityKey>>

NextFluent == ParseEntry \/ SerializeEntry

SpecFluent == InitFluent /\ [][NextFluent]_vars

(***************************************************************************)
(* Properties of the Fluent entry functions                                *)
(***************************************************************************)
\* the entry just normalized came from text that fluentSerializeEntry wrote
\* for a message which fluentParseEntry had returned
Renormalized == round >= 2 /\ pc \in {"normalized", "parse_failed"}

keyTuples(m) == [i \in 1..Len(m.alt) |-> m.alt[i].keys]
patterns(m) == [i \in 1..Len(m.alt) |-> m.alt[i].pat]

\* C1: a SelectMessage that fluentParseEntry returned, written out by
\* fluentSerializeEntry and parsed again, comes back with the same selector
\* list, the same key tuples in the same order and the same pattern for
\* every variant.
C1_SelectorRoundTrip ==
  /\ (Renormalized /\ pc = "parse_failed") => msg.type # "select"
  /\ (Renormalized /\ pc = "normalized" /\ prevMsg.type = "select") =>
       /\ msg.type = "select"
       /\ msg.sel = prevMsg.sel
       /\ keyTuples(msg) = keyTuples(prevMsg)
       /\ patterns(msg) = patterns(prevMsg)

\* a SelectMessage was written out and parsed again
C1_Witness ==
  Renormalized /\ pc = "normalized" /\ prevMsg.type = "select" /\ Len(prevMsg.alt) > 2

RECURSIVE Product(_)
Product(ns) == IF ns = <<>> THEN 1 ELSE Head(ns) * Product(Tail(ns))

\* the tuples of K[1] x ... x K[N], the first list varying slowest
RowMajor(K) ==
  LET N == Len(K)
      stride(i) == Product([j \in 1..(N - i) |-> Len(K[i + j])])
  IN [r \in 1..Product([i \in 1..N |-> Len(K[i])]) |->
        [i \in 1..N |-> K[i][(((r - 1) \div stride(i)) % Len(K[i])) + 1]]]

RECURSIVE leafFilters(_, _, _)
\* for every text run and placeholder of a selector tree, the variant key
\* that encloses it for each logical selector (NoKey where none does)
leafFilters(elements, filter, selData) ==
  UNION {LET el == elements[i] IN
         IF el.type = "Placeable" /\ el.expression.type = "SelectExpression"
         THEN UNION {leafFilters(el.expression.variants[j].value,
                                 [filter EXCEPT
                                    ![selectorIndex(selData, el.expression.node)] =
                                       variantKey(el.expression.variants[j])],
                                 selData) :
                       j \in 1..Len(el.expression.variants)}
         ELSE {filter} : i \in 1..Len(elements)}

\* the key tuples C2 expects of the entry whose elements are ast
expectedTuples(selData) ==
  LET leaves == leafFilters(ast, [i \in 1..Len(selData) |-> NoKey], selData)
      written(t) == \E f \in leaves :
                      \A i \in 1..Len(t) : f[i] = NoKey \/ keysEqual(f[i], t[i])
      tuples == SelectSeq(RowMajor([i \in 1..Len(selData) |-> uniqueKeys(selData[i])]),
                          written)
  IN [r \in 1..Len(tuples) |->
        [i \in 1..Len(tuples[r]) |-> message_key(tuples[r][i])]]

keyNames(m) ==
  [i \in 1..Len(m.alt) |-> [j \in 1..Len(m.alt[i].keys) |-> m.alt[i].keys[j].name]]

\* the entry of the test two-sels: sibling selects with keys 1, *2 and *bb, cc
TwoSels ==
  ftlEntry(<<selectOn(<<"a">>, 2, 1, Label1), TextElement(<<" ", "m", "i", "d", " ">>),
             selectOn(<<"b">>, 3, 1, Label2)>>)
\* an entry that writes nothing for the combination (1, cc)
ThreeRows == ftlEntry(<<nestingOn(<<"a">>, 2, <<"b">>, 3, 3)>>)

\* C2: the variants of a normalized entry are the tuples of the product of
\* the selectors' deduplicated key lists that received a text run or a
\* placeholder, in row-major order; two-sels has the four rows (1,bb)
\* (1,cc) (2,bb) (2,cc), and an entry that never writes (1,cc) has three.
C2_CrossProduct ==
  (pc = "normalized" /\ round = 1 /\ msg.type = "select") =>
    /\ keyTuples(msg) = expectedTuples(findSelectors(ast, <<>>))
    /\ text = TwoSels =>
         keyNames(msg) = << <<<<"1">>, <<"b", "b">>>>, <<<<"1">>, <<"c", "c">>>>,
                            <<<<"2">>, <<"b", "b">>>>, <<<<"2">>, <<"c", "c">>>> >>
    /\ text = ThreeRows =>
         keyNames(msg) = << <<<<"1">>, <<"b", "b">>>>,
                            <<<<"2">>, <<"b", "b">>>>, <<<<"2">>, <<"c", "c">>>> >>

\* an entry with two selectors was normalized and a combination was pruned
C2_Witness ==
  /\ pc = "normalized" /\ round = 1 /\ text = ThreeRows
  /\ msg.type = "select" /\ Len(msg.sel) = 2 /\ Len(msg.alt) = 3

\* some catchall key of m has no name of its own
namelessCatchall(m) ==
  /\ m.type = "select"
  /\ \E i \in 1..Len(m.alt) : \E j \in 1..Len(m.alt[i].keys) :
       m.alt[i].keys[j].catchall /\ m.alt[i].keys[j].name = <<>>

usedNames(m) ==
  UNION {{m.alt[i].keys[j].name : j \in 1..Len(m.alt[i].keys)} : i \in 1..Len(m.alt)}

\* the first of other, other1, other2, ... that is not in names
FirstFree(names) ==
  LET candidate(i) == IF i = 0 THEN Other ELSE Other \o DecimalOf(i)
  IN candidate(Min({i \in 0..Cardinality(names) : candidate(i) \notin names}))

RECURSIVE selectNodes(_)
\* the variant lists of the select expressions of a selector tree
selectNodes(elements) ==
  UNION {LET el == elements[i] IN
         IF el.type = "Placeable" /\ el.expression.type = "SelectExpression"
         THEN {el.expression.variants}
              \cup UNION {selectNodes(el.expression.variants[j].value) :
                            j \in 1..Len(el.expression.variants)}
         ELSE {} : i \in 1..Len(elements)}

\* text has t in it
Contains(s, t) == \E i \in 1..Len(s) : StartsWithAt(s, t, i)

\* C3: the name fluentSerializeEntry gives a catchall key that has none is
\* the first of other, other1, other2, ... that no key of the message's
\* variants has, and in every select expression written it differs from
\* the keys of the other variants.
C3_FallbackUnique ==
  /\ (pc = "serialized" /\ round = 0 /\ namelessCatchall(msg)) =>
       Contains(text, <<"*", "[">> \o FirstFree(usedNames(msg)) \o <<"]">>)
  /\ (pc = "normalized" /\ round = 1 /\ namelessCatchall(prevMsg)) =>
       \A variants \in selectNodes(ast) :
         \A i \in 1..Len(variants) :
           variants[i].default =>
             /\ variants[i].name \in
                  {FirstFree(usedNames(prevMsg))} \cup (usedNames(prevMsg) \ {<<>>})
             /\ variants[i].name = FirstFree(usedNames(prevMsg)) =>
                  \A j \in 1..Len(variants) : j # i => variants[j].name # variants[i].name

\* a message with a nameless catchall key and the explicit keys other and
\* other1 was written out with the catchall named other2, and parsed
C3_Witness ==
  /\ pc = "normalized" /\ round = 1 /\ namelessCatchall(prevMsg)
  /\ {Other, Other \o <<"1">>} \subseteq usedNames(prevMsg)
  /\ Contains(text, <<"*", "[">> \o Other \o <<"2", "]">>)


(***************************************************************************)
(* Pattern adapters.  An adapter is modelled with a sink that collects:    *)
(* it hands back the value returned, the errors given to onError in order, *)
(* and the error thrown by other means, if one was.  No call of onError    *)
(* sits inside a try block, so the same call with an onError that throws   *)
(* ends with the first collected error.                                    *)
(***************************************************************************)
Returned(value, errors) ==
  [value |-> value, errs |-> errors, thrown |-> FALSE, error |-> OtherError("")]
Raised(errors, error) ==
  [value |-> <<>>, errs |-> errors, thrown |-> TRUE, error |-> error]

\* an Expression with attr.source set
withSource(expr, source) == [expr EXCEPT !.attr.source = source]

\* String.prototype.toLowerCase, for the letters A-Z
toLowerCase(str) ==
  [i \in 1..Len(str) |->
     IF \E j \in 1..26 : UpperSeq[j] = str[i]
     THEN LowerSeq[CHOOSE j \in 1..26 : UpperSeq[j] = str[i]] ELSE str[i]]

(***************************************************************************)
(* webext-serialize.ts, webext-parse.ts                                    *)
(***************************************************************************)
\* part.replace(/\$+/g, '$$$&'): a '$' put before every run of '$'
escapeDollars(part) ==
  Concat([i \in 1..Len(part) |->
            IF part[i] = "$" /\ (i = 1 \/ part[i - 1] # "$")
            THEN <<"$", "$">> ELSE <<part[i]>>])

webextSerializePattern(pattern) ==
  LET RECURSIVE loop(_, _, _)
      loop(rest, str, errors) ==
        LET step(part) ==
              IF isString(part)
              THEN loop(Tail(rest), str \o escapeDollars(part.s), errors)
              ELSE IF isExpression(part) /\ part.var # Undef
              THEN loop(Tail(rest),
                        str \o (IF part.attr.source # Undef THEN part.attr.source
                                ELSE <<"$">> \o part.var \o <<"$">>),
                        errors)
              ELSE loop(Tail(rest), str \o ERROR_RESULT,
                        Append(errors, SerializeError("webext",
                                         "Unsupported pattern part", Len(str))))
        IN IF rest = <<>> THEN Returned(str, errors) ELSE step(Head(rest))
  IN loop(pattern, <<>>, <<>>)

\* the match of /\$([a-zA-Z0-9_@]+)\$|(\$[1-9])|\$(\$+)/ that starts at
\* position i of src: which alternative, and the position after the match
webextMatchAt(src, i) ==
  LET named(e) ==
        IF e > i + 1 /\ charAt(src, e) = "$" THEN [alt |-> 1, end |-> e + 1]
        ELSE IF charAt(src, i + 1) \in (Digits \ {"0"}) THEN [alt |-> 2, end |-> i + 2]
        ELSE IF charAt(src, i + 1) = "$"
        THEN [alt |-> 3, end |-> skipWhile(src, i + 1, {"$"})]
        ELSE [alt |-> 0, end |-> i]
  IN IF charAt(src, i) # "$" THEN [alt |-> 0, end |-> i]
     ELSE named(skipWhile(src, i + 1, WordChars \cup {"@"}))

\* the property names every plain object inherits from Object.prototype
ObjectPrototype ==
  {<<"c", "o", "n", "s", "t", "r", "u", "c", "t", "o", "r">>, <<"_", "_", "p", "r", "o", "t", "o", "_", "_">>, <<"h", "a", "s", "O", "w", "n", "P", "r", "o", "p", "e", "r", "t", "y">>, <<"i", "s", "P", "r", "o", "t", "o", "t", "y", "p", "e", "O", "f">>,
   <<"p", "r", "o", "p", "e", "r", "t", "y", "I", "s", "E", "n", "u", "m", "e", "r", "a", "b", "l", "e">>, <<"t", "o", "L", "o", "c", "a", "l", "e", "S", "t", "r", "i", "n", "g">>, <<"t", "o", "S", "t", "r", "i", "n", "g">>, <<"v", "a", "l", "u", "e", "O", "f">>,
   <<"_", "_", "d", "e", "f", "i", "n", "e", "G", "e", "t", "t", "e", "r", "_", "_">>, <<"_", "_", "d", "e", "f", "i", "n", "e", "S", "e", "t", "t", "e", "r", "_", "_">>, <<"_", "_", "l", "o", "o", "k", "u", "p", "G", "e", "t", "t", "e", "r", "_", "_">>,
   <<"_", "_", "l", "o", "o", "k", "u", "p", "S", "e", "t", "t", "e", "r", "_", "_">>}

\* decl[name] is truthy: decl is {} or the decl object of the base message,
\* a plain object, so the lookup also finds what Object.prototype holds
hasDecl(decl, name) == name \in decl \/ name \in ObjectPrototype

\* decl is the set of the names declared by the base message; the offsets
\* of a ParseError count from 0
webextParsePattern(decl, src) ==
  LET addText(pattern, t) ==
        IF pattern # <<>> /\ isString(Last(pattern))
        THEN Append(Front(pattern), Str(Last(pattern).s \o t))
        ELSE Append(pattern, Str(t))
      RECURSIVE loop(_, _, _)
      loop(pos, pattern, errors) ==
        LET found == {i \in pos..Len(src) : webextMatchAt(src, i).alt # 0}
            before(i, pat) == IF i > pos THEN addText(pat, SubSeq(src, pos, i - 1))
                              ELSE pat
            matched(i, m) ==
              IF m.alt = 1
              THEN LET name == toLowerCase(SubSeq(src, i + 1, m.end - 2))
                   IN loop(m.end,
                           Append(before(i, pattern),
                                  withSource(Expr(Undef, name, Undef, NoOpt),
                                             SubSeq(src, i, m.end - 1))),
                           IF hasDecl(decl, name) THEN errors
                           ELSE Append(errors, ParseError("webext",
                                  "Unresolved Variable", i - 1, m.end - 1)))
              ELSE IF m.alt = 2
              THEN loop(m.end,
                        Append(before(i, pattern),
                               withSource(Expr(Undef,
                                               <<"a", "r", "g", src[i + 1]>>,
                                               Undef, NoOpt),
                                          SubSeq(src, i, i + 1))),
                        errors)
              ELSE loop(m.end,
                        addText(before(i, pattern), SubSeq(src, i + 1, m.end - 1)),
                        errors)
            at(i) == matched(i, webextMatchAt(src, i))
        IN IF found = {}
           THEN Returned(IF pos <= Len(src)
                         THEN addText(pattern, SubSeq(src, pos, Len(src)))
                         ELSE pattern, errors)
           ELSE at(Min(found))
  IN loop(1, <<>>, <<>>)

(***************************************************************************)
(* fluentParsePattern (fluent-parse.ts), for placeables that hold a        *)
(* variable reference, a string literal or a number literal.  The catch    *)
(* block reports the error with the range from ps.index to the end of the  *)
(* source and keeps the rest of the source as a text part.                 *)
(***************************************************************************)
\* a catch block that reports the error and leaves the rest of the source
\* out; what caughtAt is told apart from
caughtDropping(src, pattern, code, index) ==
  Returned(pattern, <<ParseError("fluent", code, index - 1, Len(src))>>)

\* the catch block, with ps.index at character index of src (from 1)
caughtAt(src, pattern, code, index) ==
  Returned(IF index <= Len(src)
           THEN Append(pattern, Str(SubSeq(src, index, Len(src))))
           ELSE pattern,
           <<ParseError("fluent", code, index - 1, Len(src))>>)

fluentParsePattern(src) ==
  LET caught(pattern, code, index) == caughtAt(src, pattern, code, index)
      RECURSIVE loop(_, _)
      loop(p, pattern) ==
        LET closing(fe, e) ==
              IF charAt(src, e) = "-" /\ charAt(src, e + 1) = ">"
              THEN caught(pattern, "E0028", e)
              ELSE IF charAt(src, e) # "}" THEN caught(pattern, "E0003", e)
              ELSE loop(e + 1, Append(pattern, ftlExpression(fe.e)))
            placeable(fe) ==
              IF fe.ok THEN closing(fe, skipBlank(src, fe.pos))
              ELSE caught(pattern, fe.code, fe.pos)
            textTo(e) == loop(e, Append(pattern, Str(SubSeq(src, p, e - 1))))
        IN IF p > Len(src) THEN Returned(pattern, <<>>)
           ELSE IF src[p] = "{"
           THEN placeable(getInlineExpression(src, skipBlank(src, p + 1)))
           ELSE IF src[p] = "}" THEN caught(pattern, "E0027", p)
           ELSE textTo(skipUntil(src, p, {"{", "}"}))
  IN loop(1, <<>>)

(***************************************************************************)
(* XML (xml-utils.ts and the DOM calls of the XML adapters).  The children *)
(* of the root are kept in document order as tokens: a text node, the      *)
(* start of an element, the end of an element, a comment.  stack lists the *)
(* elements entered and not left, the outermost first; the current element *)
(* is the last of them, or the root.  The texts modelled hold none of the  *)
(* characters & < > " % _ that XML or the inline syntax gives a meaning.   *)
(***************************************************************************)
XmlToken(t, v, attrs) == [t |-> t, v |-> v, attrs |-> attrs]

\* a close part leaves whichever element is current
closesAny(stack, name) == stack # <<>>

\* a close part leaves the current element: it is not the root and has the
\* tag name of the part
closesCurrent(stack, name) == stack # <<>> /\ Last(stack) = name

\* a qualified name that createElementNS and the XML parser accept
isXmlName(name, prefixes) ==
  LET colon == skipUntil(name, 1, {":"})
  IN /\ name # <<>>
     /\ name[1] \in Letters \cup {"_"}
     /\ \A i \in 1..Len(name) : name[i] \in WordChars \cup {"-", ".", ":"}
     /\ colon > Len(name) \/ Take(name, colon - 1) \in prefixes

\* appendText(el, str) with el the current element
appendText(doc, str) ==
  IF doc.tokens # <<>> /\ Last(doc.tokens).t = "text"
  THEN [doc EXCEPT !.tokens = Append(Front(doc.tokens),
                       XmlToken("text", Last(doc.tokens).v \o str, <<>>))]
  ELSE [doc EXCEPT !.tokens = Append(doc.tokens, XmlToken("text", str, <<>>))]

\* setAttributes(el, opt): the attributes set, and the options refused
setAttributes(opt) ==
  LET entries == IF opt = NoOpt THEN <<>> ELSE opt
  IN [attrs |-> SelectSeq(entries, LAMBDA e : isString(e[2])),
      refused |-> SelectSeq(entries, LAMBDA e : ~isString(e[2]))]

\* a serializer that writes the elements still open without their end tags
serializeUnclosed(doc) ==
  LET toks == doc.tokens
      piece(i) ==
        IF toks[i].t = "text" THEN toks[i].v
        ELSE IF toks[i].t = "open" THEN <<"<">> \o toks[i].v \o <<">">>
        ELSE <<"<", "/">> \o toks[i].v \o <<">">>
  IN IF toks = <<>> THEN Throw(OtherError("Unexpected XML serialization"))
     ELSE Ok(Concat([i \in 1..Len(toks) |-> piece(i)]))

\* serialize(root): what XMLSerializer writes for the children of the root.
\* An element without children is written <name/>, and so is the root, for
\* which serialize throws.
serialize(doc) ==
  LET toks == doc.tokens
      attrText(attrs) ==
        Concat([i \in 1..Len(attrs) |->
                  <<" ">> \o attrs[i][1] \o <<"=", "\"">> \o attrs[i][2].s \o <<"\"">>])
      childless(i) == i = Len(toks) \/ toks[i + 1].t = "close"
      piece(i) ==
        IF toks[i].t = "text" THEN toks[i].v
        ELSE IF toks[i].t = "open"
        THEN <<"<">> \o toks[i].v \o attrText(toks[i].attrs)
             \o (IF childless(i) THEN <<"/", ">">> ELSE <<">">>)
        ELSE IF toks[i - 1].t = "open" THEN <<>>
        ELSE <<"<", "/">> \o toks[i].v \o <<">">>
      n == Len(doc.stack)
      pending == IF Last(toks).t = "open" THEN n - 1 ELSE n
      closers == Concat([j \in 1..pending |->
                           <<"<", "/">> \o doc.stack[pending + 1 - j] \o <<">">>])
  IN IF toks = <<>> THEN Throw(OtherError("Unexpected XML serialization"))
     ELSE Ok(Concat([i \in 1..Len(toks) |-> piece(i)]) \o closers)

\* new DOMParser().parseFromString(`<root>${src}</root>`, 'text/xml'): the
\* children of the root, or a parsererror; prefixes are the namespace
\* prefixes the root declares
xmlParse(src, prefixes) ==
  LET failed == [ok |-> FALSE, tokens |-> <<>>]
      RECURSIVE attributes(_, _)
      attributes(rest, attrs) ==
        LET a == skipWhile(rest, 1, {" "})
            eq == skipUntil(rest, a, {"="})
            q == skipUntil(rest, eq + 2, {"\""})
        IN IF a > Len(rest) THEN [ok |-> TRUE, attrs |-> attrs]
           ELSE IF a = 1 \/ eq = a \/ charAt(rest, eq + 1) # "\"" \/ q > Len(rest)
                   \/ ~isXmlName(SubSeq(rest, a, eq - 1), prefixes \cup {<<"x", "m", "l", "n", "s">>})
           THEN [ok |-> FALSE, attrs |-> <<>>]
           ELSE attributes(Drop(rest, q),
                           Append(attrs, <<SubSeq(rest, a, eq - 1),
                                           Str(SubSeq(rest, eq + 2, q - 1))>>))
      RECURSIVE scan(_, _, _)
      scan(p, toks, stack) ==
        LET element(body, empty, gt) ==
              LET sp == skipUntil(body, 1, {" "})
                  withAttrs(name, attrs) ==
                    IF ~isXmlName(name, prefixes) \/ ~attrs.ok THEN failed
                    ELSE IF empty
                    THEN scan(gt + 1,
                              toks \o <<XmlToken("open", name, attrs.attrs),
                                        XmlToken("close", name, <<>>)>>, stack)
                    ELSE scan(gt + 1, Append(toks, XmlToken("open", name, attrs.attrs)),
                              Append(stack, name))
              IN withAttrs(Take(body, sp - 1), attributes(Drop(body, sp - 1), <<>>))
            tagged(tag, gt) ==
              IF gt > Len(src) \/ tag = <<>> THEN failed
              ELSE IF tag[1] = "/"
              THEN IF stack # <<>> /\ Last(stack) = TrimEnd(Tail(tag))
                   THEN scan(gt + 1, Append(toks, XmlToken("close", Last(stack), <<>>)),
                             Front(stack))
                   ELSE failed
              ELSE IF Last(tag) = "/" THEN element(Front(tag), TRUE, gt)
              ELSE element(tag, FALSE, gt)
            comment(ends) ==
              IF ends = {} \/ \E i \in (p + 4)..(Min(ends) - 1) :
                                 StartsWithAt(src, <<"-", "-">>, i)
              THEN failed
              ELSE scan(Min(ends) + 3,
                        Append(toks, XmlToken("comment",
                                              SubSeq(src, p + 4, Min(ends) - 1), <<>>)),
                        stack)
            textTo(e) == scan(e, Append(toks, XmlToken("text", SubSeq(src, p, e - 1), <<>>)),
                              stack)
            tagAt(gt) == tagged(SubSeq(src, p + 1, gt - 1), gt)
        IN IF p > Len(src)
           THEN IF stack = <<>> THEN [ok |-> TRUE, tokens |-> toks] ELSE failed
           ELSE IF src[p] # "<" THEN textTo(skipUntil(src, p, {"<"}))
           ELSE IF StartsWithAt(src, <<"<", "!", "-", "-">>, p)
           THEN comment({i \in (p + 4)..Len(src) : StartsWithAt(src, <<"-", "-", ">">>, i)})
           ELSE tagAt(skipUntil(src, p, {">"}))
  IN scan(1, <<>>, <<>>)

(***************************************************************************)
(* android-serialize.ts, android-parse.ts, for patterns and sources        *)
(* without <xliff:g> protections, quoted sections and printf conversions   *)
(***************************************************************************)
XliffPrefix == <<"x", "l", "i", "f", "f">>
FnReference == <<"r", "e", "f", "e", "r", "e", "n", "c", "e">>
FnHtml == <<"h", "t", "m", "l">>
FnEntity == <<"e", "n", "t", "i", "t", "y">>

\* resoureRef: /^@(?:\w+:)?\w+\/\w+|\?(?:\w+:)?(\w+\/)?\w+$/
resoureRef(s) ==
  LET word(p) == skipWhile(s, p, WordChars)
      pathAt(p) == /\ word(p) > p
                   /\ charAt(s, word(p)) = "/"
                   /\ charAt(s, word(p) + 1) \in WordChars
      nameToEnd(p) == word(p) > p /\ word(p) > Len(s)
      typeToEnd(p) == \/ nameToEnd(p)
                      \/ word(p) > p /\ charAt(s, word(p)) = "/" /\ nameToEnd(word(p) + 1)
      packageToEnd(p) == \/ typeToEnd(p)
                         \/ word(p) > p /\ charAt(s, word(p)) = ":" /\ typeToEnd(word(p) + 1)
  IN \/ /\ charAt(s, 1) = "@"
        /\ \/ pathAt(2)
           \/ word(2) > 2 /\ charAt(s, word(2)) = ":" /\ pathAt(word(2) + 1)
     \/ \E i \in 1..Len(s) : s[i] = "?" /\ packageToEnd(i + 1)

\* escapeChar(ch): `\\u${ch.charCodeAt(0).toString(16).padStart(4, '0')}`
escapeChar(ch) ==
  LET hex(n) == <<HexSeq[((n \div 4096) % 16) + 1], HexSeq[((n \div 256) % 16) + 1],
                  HexSeq[((n \div 16) % 16) + 1], HexSeq[(n % 16) + 1]>>
  IN <<"\\", "u">> \o hex(charCodeAt(ch))

\* escape(src): the replaceAll calls, then escapeChar for a control code,
\* for white space other than a space, and for a space that follows a space
escape(src) ==
  LET control(n) == n <= 25 \/ (n >= 127 /\ n <= 159)
  IN Concat([i \in 1..Len(src) |->
               IF src[i] = "\n" THEN <<"\\", "n">>
               ELSE IF src[i] = "\t" THEN <<"\\", "t">>
               ELSE IF src[i] \in {"\\", "'", "\""} THEN <<"\\", src[i]>>
               ELSE IF control(charCodeAt(src[i])) THEN escapeChar(src[i])
               ELSE IF src[i] = " " /\ i > 1 /\ src[i - 1] = " " THEN escapeChar(" ")
               ELSE <<src[i]>>])

\* the token that stands for an entity reference, `_entity_${n}_`
entityToken(n) == <<"_", "e", "n", "t", "i", "t", "y", "_">> \o DecimalOf(n) \o <<"_">>

\* asTextContent(part, entities, onError) with xmlEntityKey at key: the
\* text, the errors reported, the entry added to entities, and the value
\* xmlEntityKey is left with
asTextContent(part, key) ==
  IF part.fn = FnEntity
  THEN [str |-> entityToken(key + 1),
        errs |-> (IF part.var = Undef \/ part.var = <<>>
                  THEN <<SerializeError("android", "Invalid entity", NoPos)>> ELSE <<>>)
                 \o (IF part.opt # NoOpt
                     THEN <<SerializeError("android", "Unsupported options on entity", NoPos)>>
                     ELSE <<>>),
        entities |-> << <<entityToken(key + 1),
                          <<"&">> \o (IF part.var # Undef THEN part.var ELSE <<>>) \o <<";">>>> >>,
        key |-> key + 1]
  ELSE IF part.attr.source # Undef
  THEN [str |-> part.attr.source, errs |-> <<>>, entities |-> <<>>, key |-> key]
  ELSE [str |-> IF part.var # Undef THEN part.var
                ELSE escape(IF part.lit # Undef THEN part.lit ELSE <<>>),
        errs |-> IF part.fn \notin {Undef, <<>>, FnHtml}
                 THEN <<SerializeError("android", "Unsupported function", NoPos)>>
                 ELSE <<>>,
        entities |-> <<>>, key |-> key]

\* str.replace(key, entity): the first occurrence of key in str
replaceFirst(str, key, entity) ==
  LET at == {i \in 1..Len(str) : StartsWithAt(str, key, i)}
  IN IF at = {} THEN str
     ELSE Take(str, Min(at) - 1) \o entity \o Drop(str, Min(at) + Len(key) - 1)

\* what a call of an android function hands back, with the value its
\* module's counter has at the end and had at each report to onError
Keyed(r, key, keyAt) ==
  [value |-> r.value, errs |-> r.errs, thrown |-> r.thrown, error |-> r.error,
   key |-> key, keyAt |-> keyAt]

\* quoteAndroidSpaces(root): the first and the last child of the root
quoteAndroidSpaces(doc) ==
  LET first(toks) ==
        IF toks # <<>> /\ toks[1].t = "text" /\ toks[1].v # <<>>
           /\ toks[1].v[1] \in {" ", "@", "?"}
        THEN [toks EXCEPT ![1].v = escapeChar(toks[1].v[1]) \o Tail(toks[1].v)]
        ELSE toks
      last(toks) ==
        IF toks # <<>> /\ doc.stack = <<>> /\ Last(toks).t = "text"
           /\ Last(toks).v # <<>> /\ Last(Last(toks).v) = " "
        THEN [toks EXCEPT ![Len(toks)].v = Front(Last(toks).v) \o escapeChar(" ")]
        ELSE toks
  IN [doc EXCEPT !.tokens = last(first(doc.tokens))]

\* androidSerializePattern(pattern, onError), xmlEntityKey being the
\* counter of android-serialize.ts
androidSerializePattern(pattern) ==
  LET err(what) == SerializeError("android", what, NoPos)
      at(n, key) == [i \in 1..n |-> key]
      RECURSIVE restore(_, _)
      restore(str, entities) ==
        IF entities = <<>> THEN str
        ELSE restore(replaceFirst(str, Head(entities)[1], Head(entities)[2]),
                     Tail(entities))
      finish(doc, errors, st) ==
        LET done(res, reported) ==
              IF res.ok
              THEN Keyed(Returned(restore(res.value, st.entities), reported),
                         st.key, st.keyAt \o at(Len(reported) - Len(errors), st.key))
              ELSE Keyed(Returned(ERROR_RESULT,
                                  Append(reported,
                                         SerializeError("xliff", res.error.what, NoPos))),
                         st.key, st.keyAt \o at(Len(reported) + 1 - Len(errors), st.key))
        IN done(serialize(quoteAndroidSpaces(doc)),
                IF doc.stack # <<>> THEN Append(errors, err("Missing closing markup"))
                ELSE errors)
      RECURSIVE loop(_, _, _, _)
      loop(rest, doc, errors, st) ==
        LET next(d, reported) ==
              loop(Tail(rest), d, errors \o reported,
                   [st EXCEPT !.keyAt = @ \o at(Len(reported), st.key)])
            content(c) ==
              loop(Tail(rest), appendText(doc, c.str), errors \o c.errs,
                   [key |-> c.key, keyAt |-> st.keyAt \o at(Len(c.errs), st.key),
                    entities |-> st.entities \o c.entities])
            open(part, set) ==
              IF ~isXmlName(part.name, {XliffPrefix})
              THEN Keyed(Raised(errors, OtherError("DOMException")), st.key, st.keyAt)
              ELSE next([tokens |-> Append(doc.tokens, XmlToken("open", part.name, set.attrs)),
                         stack |-> Append(doc.stack, part.name)],
                        [i \in 1..Len(set.refused) |-> err("Unsupported value for option")])
            close(part, reported) ==
              IF closesCurrent(doc.stack, part.name)
              THEN next([tokens |-> Append(doc.tokens, XmlToken("close", part.name, <<>>)),
                         stack |-> Front(doc.stack)], reported)
              ELSE next(doc, Append(reported, err("Improper element nesting")))
            step(part) ==
              IF isString(part) THEN next(appendText(doc, escape(part.s)), <<>>)
              ELSE IF isExpression(part) THEN content(asTextContent(part, st.key))
              ELSE IF part.kind = "open" /\ part.name # <<>>
              THEN open(part, setAttributes(part.opt))
              ELSE IF part.kind = "close" /\ part.name # <<>>
              THEN close(part, IF part.opt # NoOpt /\ part.opt # <<>>
                               THEN <<err("Options on closing markup are not supported")>>
                               ELSE <<>>)
              ELSE next(doc, <<err("Unsupported markup")>>)
        IN IF rest = <<>> THEN finish(doc, errors, st) ELSE step(Head(rest))
      reference(arg) ==
        LET reported == IF resoureRef(arg) THEN <<>> ELSE <<err("Invalid reference")>>
        IN Keyed(Returned(arg, reported), xmlEntityKey, at(Len(reported), xmlEntityKey))
  IN IF Len(pattern) = 1 /\ isExpression(pattern[1]) /\ pattern[1].fn = FnReference
     THEN reference(IF pattern[1].lit # Undef THEN pattern[1].lit ELSE <<>>)
     ELSE loop(pattern, [tokens |-> <<>>, stack |-> <<>>], <<>>,
               [key |-> xmlEntityKey, keyAt |-> <<>>, entities |-> <<>>])

\* flattenElements(root), once no child of the root is a comment
flattenElements(tokens) ==
  [i \in 1..Len(tokens) |->
     IF tokens[i].t = "text" THEN Str(tokens[i].v)
     ELSE IF tokens[i].t = "open"
     THEN Markup("open", tokens[i].v,
                 IF tokens[i].attrs = <<>> THEN NoOpt ELSE tokens[i].attrs)
     ELSE Markup("close", tokens[i].v, NoOpt)]

\* parseQuotes(pattern) for text without a '"': part.replace(/\s+/g, ' ')
parseQuotes(parts) ==
  LET collapse(s) ==
        Concat([i \in 1..Len(s) |->
                  IF s[i] \notin WhiteSpace THEN <<s[i]>>
                  ELSE IF i > 1 /\ s[i - 1] \in WhiteSpace THEN <<>> ELSE <<" ">>])
  IN [i \in 1..Len(parts) |->
        IF isString(parts[i]) THEN Str(collapse(parts[i].s)) ELSE parts[i]]

\* _xmlEntities
XmlEntities == {<<"a", "m", "p">>, <<"l", "t">>, <<"g", "t">>, <<"a", "p", "o", "s">>, <<"q", "u", "o", "t">>}

\* src.replace(/&([a-z][a-z0-9_]*);/gi, ...) of androidParsePattern with
\* _xmlEntityKey at key: the text with a token for each reference to an
\* entity that is not one of XML's, the names by token, and the value
\* _xmlEntityKey is left with
protectEntities(src, key) ==
  LET RECURSIVE scan(_, _)
      scan(i, st) ==
        LET e == skipWhile(src, i + 2, WordChars)
            matched == /\ src[i] = "&"
                       /\ charAt(src, i + 1) \in Letters
                       /\ charAt(src, e) = ";"
            name == SubSeq(src, i + 1, e - 1)
        IN IF i > Len(src) THEN st
           ELSE IF matched /\ name \notin XmlEntities
           THEN scan(e + 1, [safe |-> st.safe \o entityToken(st.key + 1),
                             entities |-> Append(st.entities,
                                                 <<entityToken(st.key + 1), name>>),
                             key |-> st.key + 1])
           ELSE IF matched
           THEN scan(e + 1, [st EXCEPT !.safe = @ \o SubSeq(src, i, e)])
           ELSE scan(i + 1, [st EXCEPT !.safe = Append(@, src[i])])
  IN scan(1, [safe |-> <<>>, entities |-> <<>>, key |-> key])

\* parseInline(pattern, entities): the matches of _inline for an escaped
\* character, /\\([@?nt'"\\])/, for a unicode escape, /\\u([0-9]{4})/,
\* which is read with String.fromCharCode(Number(m[2])), and for an entity
\* token, /(_entity_\d+_)/
parseInline(parts, entities) ==
  LET flush(buffer, out) == IF buffer # <<>> THEN Append(out, Str(buffer)) ELSE out
      named(token) ==
        LET hits == {i \in 1..Len(entities) : entities[i][1] = token}
        IN IF hits = {} THEN <<"U", "N", "K", "N", "O", "W", "N">> ELSE entities[Max(hits)][2]
      RECURSIVE inline(_, _, _, _)
      inline(s, i, buffer, out) ==
        LET c == charAt(s, i + 1)
            d == skipWhile(s, i + 8, Digits)
        IN IF i > Len(s) THEN [buffer |-> buffer, out |-> out]
           ELSE IF s[i] = "\\" /\ c \in {"@", "?", "n", "t", "'", "\"", "\\"}
           THEN inline(s, i + 2,
                       Append(buffer, IF c = "n" THEN "\n" ELSE IF c = "t" THEN "\t" ELSE c),
                       out)
           ELSE IF s[i] = "\\" /\ c = "u"
                   /\ \A j \in (i + 2)..(i + 5) : charAt(s, j) \in Digits
           THEN inline(s, i + 6,
                       Append(buffer, fromCharCode(parseDigits(SubSeq(s, i + 2, i + 5), 10))),
                       out)
           ELSE IF StartsWithAt(s, <<"_", "e", "n", "t", "i", "t", "y", "_">>, i) /\ d > i + 8 /\ charAt(s, d) = "_"
           THEN inline(s, d + 1, <<>>,
                       Append(flush(buffer, out),
                              Expr(Undef, named(SubSeq(s, i, d)), FnEntity, NoOpt)))
           ELSE inline(s, i + 1, Append(buffer, s[i]), out)
      RECURSIVE loop(_, _, _)
      loop(rest, buffer, out) ==
        LET text_(st) == loop(Tail(rest), st.buffer, st.out) IN
        IF rest = <<>> THEN flush(buffer, out)
        ELSE IF isString(Head(rest)) THEN text_(inline(Head(rest).s, 1, buffer, out))
        ELSE loop(Tail(rest), <<>>, Append(flush(buffer, out), Head(rest)))
  IN loop(parts, <<>>, <<>>)

\* androidParsePattern(src, onError), _xmlEntityKey being the counter of
\* android-parse.ts
androidParsePattern(src) ==
  LET protected == protectEntities(src, _xmlEntityKey)
      read(toks) ==
        LET textContent == Concat([i \in 1..Len(toks) |->
                                     IF toks[i].t = "text" THEN toks[i].v ELSE <<>>])
        IN IF (\A i \in 1..Len(toks) : toks[i].t \in {"text", "comment"})
              /\ resoureRef(textContent)
           THEN Returned(<<Expr(textContent, Undef, FnReference, NoOpt)>>, <<>>)
           ELSE IF \E i \in 1..Len(toks) : toks[i].t = "comment"
           THEN Raised(<<>>, OtherError("Unsupported node type 8"))
           ELSE Returned(parseInline(parseQuotes(flattenElements(toks)),
                                     protected.entities), <<>>)
      parsed(doc) ==
        IF doc.ok THEN read(doc.tokens)
        ELSE Returned(<<>>, <<ParseError("android", "XML parser error", NoPos, NoPos)>>)
  IN parsed(xmlParse(protected.safe, {XliffPrefix}))

(***************************************************************************)
(* xliff-serialize.ts, xliff-parse.ts, for text without printf specifiers  *)
(***************************************************************************)
xliffSerializePattern(pattern) ==
  LET err(what) == SerializeError("xliff", what, NoPos)
      finish(doc, errors) ==
        LET done(res, reported) ==
              IF res.ok THEN Returned(res.value, reported)
              ELSE Returned(ERROR_RESULT, Append(reported, err(res.error.what)))
        IN done(serialize(doc),
                IF doc.stack # <<>> THEN Append(errors, err("Missing closing markup"))
                ELSE errors)
      RECURSIVE loop(_, _, _)
      loop(rest, doc, errors) ==
        LET next(d, reported) == loop(Tail(rest), d, errors \o reported)
            child(part, set) ==
              IF ~isXmlName(part.name, {})
              THEN Raised(errors, OtherError("DOMException"))
              ELSE next(IF part.kind = "open"
                        THEN [tokens |-> Append(doc.tokens,
                                                XmlToken("open", part.name, set.attrs)),
                              stack |-> Append(doc.stack, part.name)]
                        ELSE [doc EXCEPT !.tokens =
                                doc.tokens \o <<XmlToken("open", part.name, set.attrs),
                                                XmlToken("close", part.name, <<>>)>>],
                        [i \in 1..Len(set.refused) |-> err("Unsupported value for option")])
            close(part, reported) ==
              IF closesCurrent(doc.stack, part.name)
              THEN next([tokens |-> Append(doc.tokens, XmlToken("close", part.name, <<>>)),
                         stack |-> Front(doc.stack)], reported)
              ELSE next(doc, Append(reported, err("Improper element nesting")))
            truthy(v) == v # Undef /\ v # <<>>
            step(part) ==
              IF isString(part) THEN next(appendText(doc, part.s), <<>>)
              ELSE IF isMarkup(part) /\ part.kind \in {"open", "elem"} /\ part.name # <<>>
              THEN child(part, setAttributes(part.opt))
              ELSE IF isMarkup(part) /\ part.kind = "close" /\ part.name # <<>>
              THEN close(part, IF part.opt # NoOpt /\ part.opt # <<>>
                               THEN <<err("Options on closing markup are not supported")>>
                               ELSE <<>>)
              ELSE IF part.attr.source # Undef
              THEN next(appendText(doc, part.attr.source), <<>>)
              ELSE IF isExpression(part) /\ truthy(part.lit)
              THEN next(appendText(doc, part.lit), <<>>)
              ELSE IF isExpression(part) /\ truthy(part.var)
              THEN next(appendText(doc, part.var), <<>>)
              ELSE next(appendText(doc, ERROR_RESULT), <<err("Unsupported pattern part")>>)
        IN IF rest = <<>> THEN finish(doc, errors) ELSE step(Head(rest))
  IN loop(pattern, [tokens |-> <<>>, stack |-> <<>>], <<>>)

\* parseElement(root): the children of an <x>, <bx> or <ex> are not visited,
\* a comment yields nothing
parseElement(tokens) ==
  LET standalone == {<<"x">>, <<"b", "x">>, <<"e", "x">>}
      optOf(t) == IF t.attrs = <<>> THEN NoOpt ELSE t.attrs
      RECURSIVE walk(_, _, _)
      walk(i, inside, out) ==
        LET visit(t) ==
              IF inside > 0
              THEN walk(i + 1, IF t.t = "open" THEN inside + 1
                               ELSE IF t.t = "close" THEN inside - 1 ELSE inside, out)
              ELSE IF t.t = "text" THEN walk(i + 1, 0, Append(out, Str(t.v)))
              ELSE IF t.t = "open" /\ t.v \in standalone
              THEN walk(i + 1, 1, Append(out, Markup("elem", t.v, optOf(t))))
              ELSE IF t.t = "open"
              THEN walk(i + 1, 0, Append(out, Markup("open", t.v, optOf(t))))
              ELSE IF t.t = "close"
              THEN walk(i + 1, 0, Append(out, Markup("close", t.v, NoOpt)))
              ELSE walk(i + 1, 0, out)
        IN IF i > Len(tokens) THEN out ELSE visit(tokens[i])
  IN walk(1, 0, <<>>)

xliffParsePattern(src) ==
  LET parsed(doc) ==
        IF doc.ok THEN Returned(parseElement(doc.tokens), <<>>)
        ELSE Returned(<<>>, <<ParseError("xliff", "XML parser error", NoPos, NoPos)>>)
  IN parsed(xmlParse(src, {}))

(***************************************************************************)
(* mf2-serialize.ts and mf2-parse.ts.  parseMessage belongs to the         *)
(* messageformat package; it is modelled for the source mf2ParsePattern    *)
(* hands it, a quoted pattern {{...}}, by the MessageFormat 2 grammar for  *)
(* text, escapes, placeholders with a variable or literal operand, a       *)
(* function with options, markup, and attributes.  Of the attributes only  *)
(* source and translate have a place in attr.  An error is the position    *)
(* the parser stands at.                                                   *)
(***************************************************************************)
Mf2NameStart == Letters \cup {"_"}
Mf2NameChars == Mf2NameStart \cup Digits \cup {"-", "."}

\* name.test(lit) || number.test(lit); the '.' of the number expression is
\* not escaped and matches any character but a line end
mf2IsBare(lit) ==
  LET n == Len(lit)
      digits(i, j) == j > i /\ \A x \in i..(j - 1) : lit[x] \in Digits
      from == IF n > 0 /\ lit[1] = "-" THEN 2 ELSE 1
      intEnds == {j \in (from + 1)..(n + 1) :
                    \/ (j = from + 1 /\ lit[from] = "0")
                    \/ (lit[from] \in Digits \ {"0"} /\ digits(from, j))}
      fracEnds(a) == {a} \cup {j \in (a + 2)..(n + 1) :
                                 lit[a] # EOL /\ digits(a + 1, j)}
      expEnds(b) == {b} \cup {j \in (b + 2)..(n + 1) :
                                /\ lit[b] \in {"e", "E"}
                                /\ \/ digits(b + 1, j)
                                   \/ (lit[b + 1] \in {"-", "+"} /\ digits(b + 2, j))}
  IN \/ /\ n > 0
        /\ lit[1] \in Mf2NameStart
        /\ \A i \in 2..n : lit[i] \in Mf2NameChars
     \/ \E a \in intEnds : \E b \in fracEnds(a) : (n + 1) \in expEnds(b)

mf2Literal(lit) ==
  IF mf2IsBare(lit) THEN lit
  ELSE <<"|">> \o Concat([i \in 1..Len(lit) |->
                            IF lit[i] \in {"\\", "|"} THEN <<"\\", lit[i]>>
                            ELSE <<lit[i]>>]) \o <<"|">>

mf2Options(opt) ==
  IF opt = NoOpt THEN <<>>
  ELSE Concat([i \in 1..Len(opt) |->
                 <<" ">> \o opt[i][1] \o <<"=">> \o
                 (IF isString(opt[i][2]) THEN mf2Literal(opt[i][2].s)
                  ELSE <<"$">> \o opt[i][2].var)])

mf2Attributes(attr) ==
  LET one(name, val) ==
        IF val = Undef THEN <<>>
        ELSE <<" ", "@">> \o name \o <<"=">> \o mf2Literal(val)
  IN one(<<"s", "o", "u", "r", "c", "e">>, attr.source) \o one(<<"t", "r", "a", "n", "s", "l", "a", "t", "e">>, attr.translate)

mf2SerializePattern(pattern) ==
  LET text_(s) == Concat([i \in 1..Len(s) |->
                            IF s[i] \in {"\\", "{", "}"} THEN <<"\\", s[i]>>
                            ELSE <<s[i]>>])
      arg(e) == IF e.lit # Undef THEN mf2Literal(e.lit)
                ELSE IF e.var \notin {Undef, <<>>} THEN <<"$">> \o e.var
                ELSE <<>>
      fn(e) == IF e.fn \in {Undef, <<>>} THEN <<>>
               ELSE (IF e.lit # Undef \/ e.var \notin {Undef, <<>>} THEN <<" ">> ELSE <<>>)
                    \o <<":">> \o e.fn \o mf2Options(e.opt)
      expr(e) == <<"{">> \o arg(e) \o fn(e) \o mf2Attributes(e.attr) \o <<"}">>
      mark(m) == (IF m.kind = "close" THEN <<"{", "/">> ELSE <<"{", "#">>)
                 \o m.name \o mf2Options(m.opt) \o mf2Attributes(m.attr)
                 \o (IF m.kind = "elem" THEN <<"/", "}">> ELSE <<"}">>)
  IN Returned(Concat([i \in 1..Len(pattern) |->
                        IF isString(pattern[i]) THEN text_(pattern[i].s)
                        ELSE IF isExpression(pattern[i]) THEN expr(pattern[i])
                        ELSE mark(pattern[i])]),
              <<>>)

\* parseMessage(source) for a source that opens with {{
parseMessage(source) ==
  LET ws == {" ", "\t", "\n"}
      at(p) == charAt(source, p)
      syntaxError(p) == [ok |-> FALSE, start |-> p - 1, end |-> p]
      \* [namespace ":"] name from p on: the position after it, p when none
      nameEnd(p) == IF at(p) \in Mf2NameStart THEN skipWhile(source, p, Mf2NameChars)
                    ELSE p
      identEnd(p) ==
        LET e == nameEnd(p)
        IN IF e > p /\ at(e) = ":" /\ nameEnd(e + 1) > e + 1 THEN nameEnd(e + 1) ELSE e
      sub(a, b) == SubSeq(source, a, b - 1)
      \* a literal from p on: [ok, value, pos]
      RECURSIVE quoted(_, _)
      quoted(p, acc) ==
        IF at(p) = "|" THEN [ok |-> TRUE, value |-> acc, pos |-> p + 1]
        ELSE IF at(p) = "\\" /\ at(p + 1) \in {"\\", "{", "|", "}"}
        THEN quoted(p + 2, Append(acc, at(p + 1)))
        ELSE IF at(p) \in {EOF, "\\"} THEN syntaxError(p)
        ELSE quoted(p + 1, Append(acc, at(p)))
      literalAt(p) ==
        LET e == skipWhile(source, p, Mf2NameChars)
        IN IF at(p) = "|" THEN quoted(p + 1, <<>>)
           ELSE IF e > p THEN [ok |-> TRUE, value |-> sub(p, e), pos |-> e]
           ELSE syntaxError(p)
      \* what follows the operand or the markup name: a function, options,
      \* attributes and the closing brace
      RECURSIVE tail(_, _)
      tail(p, part) ==
        LET q == skipWhile(source, p, ws)
            c == at(q)
            spaced == q > p
            isMarkup_ == part.type = "markup"
            option(e) ==
              LET eq == skipWhile(source, e, ws)
                  v == skipWhile(source, eq + 1, ws)
                  name == sub(q, e)
                  lit == literalAt(v)
                  put(val, pos) ==
                    IF isMarkup_
                    THEN tail(pos, [part EXCEPT !.options = Append(@, <<name, val>>)])
                    ELSE tail(pos, [part EXCEPT !.functionRef.options =
                                                  Append(@, <<name, val>>)])
              IN IF at(eq) # "=" THEN syntaxError(eq)
                 ELSE IF at(v) = "$"
                 THEN IF nameEnd(v + 1) > v + 1
                      THEN put([type |-> "variable", name |-> sub(v + 1, nameEnd(v + 1))],
                               nameEnd(v + 1))
                      ELSE syntaxError(v + 1)
                 ELSE IF lit.ok THEN put([type |-> "literal", value |-> lit.value], lit.pos)
                 ELSE lit
            attribute(e) ==
              LET eq == skipWhile(source, e, ws)
                  lit == literalAt(skipWhile(source, eq + 1, ws))
                  name == sub(q + 1, e)
              IN IF e = q + 1 THEN syntaxError(e)
                 ELSE IF at(eq) # "="
                 THEN tail(e, [part EXCEPT !.attributes = Append(@, <<name, TRUE>>)])
                 ELSE IF lit.ok
                 THEN tail(lit.pos, [part EXCEPT !.attributes =
                                                   Append(@, <<name, lit.value>>)])
                 ELSE lit
        IN IF c = "}" THEN [ok |-> TRUE, part |-> part, pos |-> q + 1]
           ELSE IF c = "/" /\ isMarkup_ /\ part.kind = "open" /\ at(q + 1) = "}"
           THEN [ok |-> TRUE, part |-> [part EXCEPT !.kind = "standalone"], pos |-> q + 2]
           ELSE IF c = "@" /\ spaced THEN attribute(identEnd(q + 1))
           ELSE IF /\ c = ":" /\ ~isMarkup_ /\ part.functionRef.name = Undef
                   /\ part.attributes = <<>> /\ (spaced \/ part.arg.type = "none")
           THEN IF identEnd(q + 1) > q + 1
                THEN tail(identEnd(q + 1),
                          [part EXCEPT !.functionRef =
                             [name |-> sub(q + 1, identEnd(q + 1)), options |-> <<>>]])
                ELSE syntaxError(q + 1)
           ELSE IF /\ spaced /\ identEnd(q) > q /\ part.attributes = <<>>
                   /\ (isMarkup_ \/ part.functionRef.name # Undef)
           THEN option(identEnd(q))
           ELSE syntaxError(q)
      expression_(arg, p) ==
        tail(p, [type |-> "expression", arg |-> arg,
                 functionRef |-> [name |-> Undef, options |-> <<>>],
                 attributes |-> <<>>])
      \* a placeholder whose opening brace is at p
      placeholder(p) ==
        LET q == skipWhile(source, p + 1, ws)
            c == at(q)
            lit == literalAt(q)
        IN IF c \in {"#", "/"}
           THEN IF identEnd(q + 1) > q + 1
                THEN tail(identEnd(q + 1),
                          [type |-> "markup", kind |-> IF c = "#" THEN "open" ELSE "close",
                           name |-> sub(q + 1, identEnd(q + 1)), options |-> <<>>,
                           attributes |-> <<>>])
                ELSE syntaxError(q + 1)
           ELSE IF c = ":" THEN expression_([type |-> "none"], q)
           ELSE IF c = "$"
           THEN IF nameEnd(q + 1) > q + 1
                THEN expression_([type |-> "variable", name |-> sub(q + 1, nameEnd(q + 1))],
                                 nameEnd(q + 1))
                ELSE syntaxError(q + 1)
           ELSE IF lit.ok
           THEN expression_([type |-> "literal", value |-> lit.value], lit.pos)
           ELSE lit
      RECURSIVE body(_, _, _)
      body(p, txt, out) ==
        LET flushed == IF txt = <<>> THEN out ELSE Append(out, [type |-> "text", value |-> txt])
            ph == placeholder(p)
            after == skipWhile(source, p + 2, ws)
        IN IF at(p) = "\\"
           THEN IF at(p + 1) \in {"\\", "{", "|", "}"}
                THEN body(p + 2, Append(txt, at(p + 1)), out)
                ELSE syntaxError(p)
           ELSE IF at(p) = "{"
           THEN IF ph.ok THEN body(ph.pos, <<>>, Append(flushed, ph.part)) ELSE ph
           ELSE IF at(p) = "}"
           THEN IF at(p + 1) = "}" /\ after > Len(source)
                THEN [ok |-> TRUE, type |-> "message", declarations |-> <<>>,
                      pattern |-> flushed]
                ELSE syntaxError(IF at(p + 1) = "}" THEN after ELSE p)
           ELSE IF at(p) = EOF THEN syntaxError(p)
           ELSE body(p + 1, Append(txt, at(p)), out)
  IN body(3, <<>>, <<>>)

\* patternPart, options and attributes of mf2-parse.ts; a string of the
\* parsed pattern is the part of type "text"
patternPart(part) ==
  LET options_(opt) ==
        IF opt = <<>> THEN NoOpt
        ELSE [i \in 1..Len(opt) |->
                <<opt[i][1],
                  IF opt[i][2].type = "literal" THEN Str(opt[i][2].value)
                  ELSE Expr(Undef, opt[i][2].name, Undef, NoOpt)>>]
      attributes_(attr) ==
        LET valueOf(name) ==
              LET is == {i \in 1..Len(attr) : attr[i][1] = name}
              IN IF is = {} THEN Undef ELSE attr[Max(is)][2]
        IN [source |-> valueOf(<<"s", "o", "u", "r", "c", "e">>), translate |-> valueOf(<<"t", "r", "a", "n", "s", "l", "a", "t", "e">>)]
      expr(e) ==
        [Expr(IF e.arg.type = "literal" THEN e.arg.value ELSE Undef,
              IF e.arg.type = "variable" THEN e.arg.name ELSE Undef,
              e.functionRef.name,
              options_(e.functionRef.options))
         EXCEPT !.attr = attributes_(e.attributes)]
      mark(m) ==
        [Markup(IF m.kind \in {"open", "close"} THEN m.kind ELSE "elem",
                m.name, options_(m.options))
         EXCEPT !.attr = attributes_(m.attributes)]
  IN IF part.type = "text" THEN Str(part.value)
     ELSE IF part.type = "expression" THEN expr(part)
     ELSE mark(part)

\* a parser that lets the error of parseMessage through
mf2ParseUncaught(src) ==
  LET parsed(mf2) ==
        IF ~mf2.ok THEN Raised(<<>>, OtherError("MessageSyntaxError"))
        ELSE Returned([i \in 1..Len(mf2.pattern) |-> patternPart(mf2.pattern[i])], <<>>)
  IN parsed(parseMessage(<<"{", "{">> \o src \o <<"}", "}">>))

mf2ParsePattern(src) ==
  LET parsed(mf2) ==
        IF ~mf2.ok
        THEN Returned(<<>>, <<ParseError("mf2", "MessageSyntaxError",
                                         mf2.start - 2, mf2.end - 2)>>)
        ELSE IF mf2.type # "message" \/ mf2.declarations # <<>>
        THEN Returned(<<>>, <<ParseError("mf2", "Parse error", 0, Len(src))>>)
        ELSE Returned([i \in 1..Len(mf2.pattern) |-> patternPart(mf2.pattern[i])], <<>>)
  IN parsed(parseMessage(<<"{", "{">> \o src \o <<"}", "}">>))

(***************************************************************************)
(* index.ts: parsePattern and serializePattern                             *)
(***************************************************************************)
\* a dispatcher that takes an unknown format tag for plain text
parsePatternLenient(format, src, baseMsg) ==
  CASE format = "android" -> androidParsePattern(src)
    [] format = "fluent" -> fluentParsePattern(src)
    [] format = "mf2" -> mf2ParsePattern(src)
    [] format = "webext" -> webextParsePattern(baseMsg, src)
    [] format = "xliff" -> xliffParsePattern(src)
    [] OTHER -> Returned(<<Str(src)>>, <<>>)

parsePattern(format, src, baseMsg) ==
  CASE format = "android" -> androidParsePattern(src)
    [] format = "fluent" -> fluentParsePattern(src)
    [] format = "mf2" -> mf2ParsePattern(src)
    [] format = "webext" -> webextParsePattern(baseMsg, src)
    [] format = "xliff" -> xliffParsePattern(src)
    [] format = "plain" -> Returned(<<Str(src)>>, <<>>)
    [] OTHER -> Returned(<<Str(src)>>,
                         <<ParseError(format, "Unsupported format", NoPos, NoPos)>>)

serializePattern(format, pattern) ==
  LET RECURSIVE loop(_, _, _)
      loop(rest, res, errors) ==
        IF rest = <<>> THEN Returned(res, errors)
        ELSE IF isString(Head(rest)) THEN loop(Tail(rest), res \o Head(rest).s, errors)
        ELSE loop(Tail(rest), res \o ERROR_RESULT,
                  Append(errors,
                         SerializeError(format, "Unsupported pattern part", Len(res))))
      collected(r) == Returned(r.str, r.errs)
  IN CASE format = "android" -> androidSerializePattern(pattern)
       [] format = "fluent" -> collected(fluentSerializePattern(pattern))
       [] format = "mf2" -> mf2SerializePattern(pattern)
       [] format = "webext" -> webextSerializePattern(pattern)
       [] format = "xliff" -> xliffSerializePattern(pattern)
       [] format = "plain" -> loop(pattern, <<>>, <<>>)
       [] OTHER -> loop(pattern, <<>>,
                        <<SerializeError(format, "Unsupported format", NoPos)>>)

\* a call with a sink that collects: what the call hands back
withSink(r) == IF r.thrown THEN Throw(r.error) ELSE Ok(r.value)

\* a call without a sink: onError ??= (error) => { throw error }
withoutSink(r) ==
  IF r.errs # <<>> THEN Throw(r.errs[1])
  ELSE IF r.thrown THEN Throw(r.error)
  ELSE Ok(r.value)

\* the value xmlEntityKey has after serializePattern(format, pattern), with
\* an onError that throws (strict) or one that collects
serializeKey(format, pattern, strict) ==
  LET left(r) == IF strict /\ r.errs # <<>> THEN r.keyAt[1] ELSE r.key
  IN IF format = "android" THEN left(androidSerializePattern(pattern))
     ELSE xmlEntityKey

\* the value _xmlEntityKey has after parsePattern(format, src): the
\* references are replaced before the first call of onError
parseKey(format, src) ==
  IF format = "android" THEN protectEntities(src, _xmlEntityKey).key
  ELSE _xmlEntityKey

(***************************************************************************)
(* Pattern calls: a caller hands a pattern to serializePattern and the     *)
(* text it gets to parsePattern, or a text to parsePattern, under one      *)
(* format tag; before a call with a sink it may make the same call without *)
(* one.  The sink is shared by the calls, as in the tests.                 *)
(***************************************************************************)
Formats == {"android", "fluent", "mf2", "plain", "webext", "xliff", "unsupported"}

\* the longest text part, and the most parts of a pattern, that are built
MaxText == 3
MaxParts == 3

\* the nonempty strings over an alphabet, up to n characters
StringsOver(alphabet, n) == UNION {[1..k -> alphabet] : k \in 1..n}

\* the patterns of up to n parts without two texts in a row
PatternsOver(texts, others, n) ==
  LET parts == {Str(t) : t \in texts} \cup others
  IN {p \in UNION {[1..k -> parts] : k \in 1..n} :
        \A i \in 1..(Len(p) - 1) : ~(isString(p[i]) /\ isString(p[i + 1]))}

\* android.test.ts 'whitespace', xliff.test.ts and android.test.ts markup
WhiteTexts == StringsOver({"a", " ", "\n", "\t"}, MaxText)
MarkupParts ==
  {Markup(kind, name, NoOpt) : kind \in {"open", "close"}, name \in {<<"b">>, <<"i">>}}
MarkupPatterns == PatternsOver({<<"b", "o", "l", "d">>}, MarkupParts, MaxParts)
XmlSpecial ==
  {<<>>,
   <<Markup("open", <<"b">>, NoOpt), Str(<<"b", "o", "l", "d">>), Markup("close", <<"a">>, NoOpt)>>,
   <<Markup("open", <<"m", ":", "o", "p", "e", "n">>, NoOpt), Str(<<"b", "o", "l", "d">>), Markup("close", <<"m", ":", "o", "p", "e", "n">>, NoOpt)>>,
   <<Markup("open", <<"b">>, <<<<<<"i", "d">>, Str(<<"x">>)>>>>), Str(<<"b", "o", "l", "d">>),
     Markup("close", <<"b">>, <<<<<<"i", "d">>, Str(<<"x">>)>>>>)>>,
   <<Markup("elem", <<"x">>, <<<<<<"i", "d">>, Str(<<"I", "N", "T">>)>>>>), Str(<<" ", "m", "i", "n", "u", "t", "e", "s", " ", "a", "g", "o">>)>>,
   <<Expr(<<"f", "o", "o">>, Undef, FnReference, NoOpt)>>,
   <<Expr(<<"@", "s", "t", "r", "i", "n", "g", "/", "f", "o", "o">>, Undef, FnReference, NoOpt)>>,
   <<Expr(Undef, <<"k", "e", "y">>, FnNumber, NoOpt)>>,
   <<Str(<<"H", "e", "l", "l", "o", " ">>), Expr(Undef, <<"k", "e", "y">>, Undef, NoOpt)>>}
XmlSources ==
  {<<"h", "e", "l", "l", "o">>, <<"i", "n", "v", "a", "l", "i", "d", " ", "<", "x", "m", "l", ">">>, <<"H", "e", "l", "l", "o", " ", "<", "b", ">">>, <<"<", "b", ">", "b", "o", "l", "d", "<", "/", "b", ">">>, <<"a", "<", "!", "-", "-", "c", "-", "-", ">", "b">>,
   <<"@", "s", "t", "r", "i", "n", "g", "/", "f", "o", "o">>, <<"a", " ", "<", "i", ">", "b", "<", "/", "i", ">", "<", "b", "/", ">">>, <<"t", "a", "b", "\\", "t", "h", "e", "r", "e">>}

\* android.test.ts 'entity reference', 'invalid entity value' and 'invalid
\* entity options', and text that reads like a token
EntityPatterns ==
  {<<Str(<<"W", "e", "l", "c", "o", "m", "e", " ", "t", "o", " ">>), Markup("open", <<"b">>, NoOpt),
     Expr(Undef, <<"f", "o", "o">>, FnEntity, NoOpt), Markup("close", <<"b">>, NoOpt), Str(<<"!">>)>>,
   <<Expr(<<"e", "n", "t">>, Undef, FnEntity, NoOpt)>>,
   <<Expr(Undef, <<"e", "n", "t">>, FnEntity, <<<<<<"x">>, Str(<<"y">>)>>>>)>>,
   <<Expr(Undef, <<"a">>, FnEntity, NoOpt), Expr(Undef, <<"b">>, FnEntity, NoOpt)>>,
   <<Markup("elem", <<"x">>, NoOpt), Expr(Undef, <<"a">>, FnEntity, NoOpt)>>,
   <<Str(<<"_", "e", "n", "t", "i", "t", "y", "_", "1", "_", " ">>), Expr(Undef, <<"f", "o", "o">>, FnEntity, NoOpt)>>}
EntitySources ==
  {<<"W", "e", "l", "c", "o", "m", "e", " ", "t", "o", " ", "<", "b", ">", "&", "f", "o", "o", ";", "<", "/", "b", ">", "!">>, <<"&", "a", ";", "&", "b", ";">>, <<"_", "e", "n", "t", "i", "t", "y", "_", "1", "_", " ", "&", "f", "o", "o", ";">>, <<"&", "f", "o", "o", ";", " ", "<", "b", ">">>}

\* the values the counters of the android modules may have when a call is
\* made: each starts at Math.floor(Math.random() * 1e9)
EntityKeys == {0, 4}

\* fluent.test.ts 'pattern success' and 'pattern serialize errors'
FluentTexts == StringsOver({"a", "\\", "{", "}"}, MaxText)
FluentExpressions ==
  {Expr(Undef, <<"w", "o", "r", "l", "d">>, Undef, NoOpt), Expr(<<"o", "n", "e">>, Undef, Undef, NoOpt),
   Expr(<<>>, Undef, Undef, NoOpt), Expr(<<"4", "2">>, Undef, FnNumber, NoOpt)}
\* a text, an expression, and a text with expressions next to it
FluentTextAndExpression ==
  UNION {{<<Str(t)>>, <<e>>, <<Str(t), e>>, <<e, Str(t)>>, <<e, Str(t), e>>} :
           t \in FluentTexts, e \in FluentExpressions}
\* expressions whose function or variable is not an identifier
UnwritableParts ==
  {Expr(<<"x">>, Undef, <<"m", "y", " ", "f", "n">>, NoOpt), Expr(Undef, <<"v">>, <<"1", "f", "n">>, NoOpt),
   Expr(Undef, <<"m", "y", " ", "v", "a", "r">>, FnNumber, NoOpt), Expr(Undef, <<"m", "y", " ", "v", "a", "r">>, Undef, NoOpt),
   Expr(Undef, <<"1", "v">>, <<"f", "u", "n", "c">>, NoOpt)}
FluentPatterns ==
  FluentTextAndExpression \cup PatternsOver({<<"a">>}, UnwritableParts, 2) \cup
  {<<Markup("open", <<"x">>, NoOpt)>>,
   <<Expr(Undef, Undef, Undef, NoOpt), Expr(Undef, Undef, Undef, NoOpt)>>,
   <<Expr(<<"4", "2">>, Undef, <<"m", "e", "s", "s", "a", "g", "e">>, NoOpt)>>}
FluentSources ==
  {<<"i", "n", "v", "a", "l", "i", "d", " ", "}">>, <<"{", " ", "}">>, <<"H", "e", "l", "l", "o", " ", "{", " ", "$", "w", "o", "r", "l", "d", " ", "}">>, <<"{", " ", "$", "x", " ", "-", ">", "\n", " ", "*", "[", "x", "]", " ", "X", "\n", " ", "}">>,
   <<"{", " ", "\"", "f", "o", "o", "\n", "b", "a", "r", "\"", " ", "}">>, <<"{", " ", "\"", "o", "n", "e", "\"", " ", "}", " ", "{", " ", "4", "2", " ", "}">>,
   <<"a", "{", " ", "$", "x", " ", "}", "b", "}", "c">>, <<"a", "b", " ", "{">>, <<"a", "{", " ", "$", "x", " ", "-", ">", "\n", " ", "*", "[", "x", "]", " ", "X", "\n", " ", "}">>}

\* webext.test.ts
Declared == {<<"w", "o", "r", "l", "d">>}
WebextTexts == StringsOver({"a", "$"}, MaxText - 1)
WebextPlaceholders ==
  {withSource(Expr(Undef, <<"w", "o", "r", "l", "d">>, Undef, NoOpt), <<"$", "W", "O", "R", "L", "D", "$">>),
   withSource(Expr(Undef, <<"a", "r", "g", "1">>, Undef, NoOpt), <<"$", "1">>),
   withSource(Expr(Undef, <<"a", "r", "g", "2">>, Undef, NoOpt), <<"$", "2">>)}
WebextPatterns ==
  PatternsOver(WebextTexts, WebextPlaceholders, MaxParts) \cup
  {<<Str(<<"H", "e", "l", "l", "o", " ">>), Expr(Undef, <<"w", "o", "r", "l", "d">>, Undef, NoOpt)>>,
   <<Str(<<"H", "e", "l", "l", "o", " ">>), Expr(<<"l", "i", "t">>, Undef, Undef, NoOpt)>>,
   <<Str(<<"H", "e", "l", "l", "o", " ">>), Expr(<<"w", "o", "r", "l", "d">>, Undef, Undef, NoOpt), Str(<<"?">>)>>,
   <<Markup("open", <<"b">>, NoOpt)>>}
WebextSources ==
  {<<"H", "a", "s", " ", "$", "B", "a", "r", "$", "?">>, <<"H", "e", "l", "l", "o", " ", "$", "2">>, <<"$", "F", "O", "O", "$", "$", "F", "o", "o", "$">>, <<"$", "W", "O", "R", "L", "D", "$", " ", "$", "$">>,
   <<"$", "a", "$", " ", "$", "W", "o", "r", "l", "d", "$", "$", "B", "$">>, <<"$", "1", "$", "x", "$">>, <<"$", "c", "o", "n", "s", "t", "r", "u", "c", "t", "o", "r", "$">>}

\* mf2.test.ts and the 'parse errors' of the index tests
Mf2Patterns ==
  {<<>>, <<Str(<<" ", " ", "\n", "\t">>)>>, <<Expr(<<>>, Undef, Undef, NoOpt)>>,
   <<Expr(<<"f", "o", "o", " ", "b", "a", "r", "|", "b", "a", "z">>, Undef, Undef, NoOpt)>>,
   <<Expr(Undef, <<"v", "a", "r">>, <<"t", "e", "s", "t", ":", "s", "t", "r", "i", "n", "g">>,
          <<<<<<"o", "p", "t", "-", "a">>, Str(<<"4", "2">>)>>, <<<<"o", "p", "t", ":", "b">>, Expr(Undef, <<"v", "a", "r">>, Undef, NoOpt)>>>>)>>,
   <<Str(<<"t", "e", "x", "t", "1", " ">>), Expr(Undef, <<"v", "a", "r">>, Undef, NoOpt), Markup("open", <<"m", ":", "o", "p", "e", "n">>, NoOpt),
     Str(<<"{", "t", "e", "x", "t", "3", "}">>), Markup("close", <<"m", ":", "c", "l", "o", "s", "e">>, NoOpt),
     Markup("elem", <<"m", ":", "s", "t", "a", "n", "d", "a", "l", "o", "n", "e">>, NoOpt)>>}
Mf2Sources ==
  StringsOver({"a", "{", "}", "\\", "$"}, MaxText) \cup
  {<<"e", "x", "t", "r", "a", " ", "}">>, <<"{", " ", "}">>, <<"{", ":", ":", "f", "u", "n", "c", "}">>, <<"h", "e", "l", "l", "o", " ", "{", "$", "x", " ", ":", "n", "u", "m", "b", "e", "r", "}">>, <<"{", "#", "b", "}", "b", "o", "l", "d", "{", "/", "b", "}">>,
   <<"{", "|", "a", "}">>, <<"{", "$", "x", " ", "@", "a", "=", "|", "b", "}">>}

\* the index tests
PlainPatterns ==
  {<<>>, <<Str(<<"b", "a", "r">>)>>, <<Str(<<"{", "f", "o", "o", " ", "%", "s", "}">>)>>,
   <<Str(<<"h", "e", "l", "l", "o", " ">>), Expr(<<"l", "i", "t">>, Undef, Undef, NoOpt)>>,
   <<Expr(Undef, <<"x">>, Undef, NoOpt), Str(<<"b">>), Markup("open", <<"b">>, NoOpt)>>}
PlainSources == {<<>>, <<"b", "a", "r">>, <<"{", "f", "o", "o", " ", "%", "s", "}">>, <<"i", "n", "v", "a", "l", "i", "d", " ", "}">>}

\* the 'serialize errors' and 'unsupported pattern part' tests: parts that
\* one format or another has no way to write, with text around them
FaultyParts ==
  {Expr(Undef, Undef, Undef, NoOpt), Expr(Undef, <<"k", "e", "y">>, FnNumber, NoOpt),
   Markup("elem", <<"x">>, NoOpt)}
FaultyPatterns == PatternsOver({<<"a">>, <<"b", "c">>}, FaultyParts, MaxParts)

Patterns(format) ==
  CASE format = "android" -> {<<Str(t)>> : t \in WhiteTexts} \cup MarkupPatterns
                             \cup XmlSpecial \cup FaultyPatterns \cup EntityPatterns
    [] format = "xliff" -> MarkupPatterns \cup XmlSpecial \cup FaultyPatterns
    [] format = "fluent" -> FluentPatterns \cup FaultyPatterns
    [] format = "webext" -> WebextPatterns \cup FaultyPatterns
    [] format = "mf2" -> Mf2Patterns
    [] OTHER -> PlainPatterns \cup FaultyPatterns

Texts(format) ==
  CASE format = "android" -> XmlSources \cup EntitySources
    [] format = "xliff" -> XmlSources
    [] format = "fluent" -> FluentSources
    [] format = "webext" -> WebextSources
    [] format = "mf2" -> Mf2Sources
    [] OTHER -> PlainSources

InitPattern ==
  /\ call \in {[format |-> f, base |-> b] :
                 f \in Formats, b \in {{}, Declared}}
  /\ call.format = "webext" \/ call.base = {}
  /\ \/ /\ pc = "pattern"
        /\ msg \in Patterns(call.format)
        /\ text = <<>>
     \/ /\ pc = "text"
        /\ msg = <<>>
        /\ text \in Texts(call.format)
  /\ orig = msg
  /\ round = 0
  /\ ast = <<>>
  /\ prevMsg = NoMsg
  /\ ret = Ok(<<>>)
  /\ errs = <<>>
  /\ strictRet = NoCall
  /\ _xmlEntityKey \in EntityKeys
  /\ xmlEntityKey \in EntityKeys
  /\ call.format = "android" \/ (_xmlEntityKey = 0 /\ xmlEntityKey = 0)

\* serializePattern(format, pattern)
SerializeStrict ==
  /\ call.format \in Formats
  /\ pc = "pattern"
  /\ strictRet.op # "serialize"
  /\ strictRet' = [op |-> "serialize",
                   out |-> withoutSink(serializePattern(call.format, msg))]
  /\ xmlEntityKey' = serializeKey(call.format, msg, TRUE)
  /\ UNCHANGED <<pc, round, ast, msg, prevMsg, text, call, ret, errs, orig,
                 _xmlEntityKey>>

\* serializePattern(format, pattern, onError)
SerializeSink ==
  /\ call.format \in Formats
  /\ pc = "pattern"
  /\ LET done(r) ==
           /\ ret' = withSink(r)
           /\ errs' = errs \o r.errs
           /\ text' = r.value
           /\ pc' = IF r.thrown THEN "serialize_threw" ELSE "serialized"
     IN done(serializePattern(call.format, msg))
  /\ xmlEntityKey' = serializeKey(call.format, msg, FALSE)
  /\ UNCHANGED <<round, ast, msg, prevMsg, call, orig, strictRet, _xmlEntityKey>>

\* the source is of the part of the format's syntax that the parser
\* modelled reads: a Fluent placeable holds a variable, a string or a number
readable(format, src) ==
  format = "fluent" =>
    \A i \in 1..Len(src) :
      src[i] = "{" =>
        LET at == skipBlank(src, i + 1)
        IN /\ charAt(src, at) \notin Letters
           /\ ~(charAt(src, at) = "-" /\ charAt(src, at + 1) \in Letters)

\* parsePattern(format, src, baseMsg)
ParseStrict ==
  /\ call.format \in Formats
  /\ readable(call.format, text)
  /\ pc \in {"text", "serialized"}
  /\ strictRet.op # "parse"
  /\ strictRet' = [op |-> "parse",
                   out |-> withoutSink(parsePattern(call.format, text, call.base))]
  /\ _xmlEntityKey' = parseKey(call.format, text)
  /\ UNCHANGED <<pc, round, ast, msg, prevMsg, text, call, ret, errs, orig,
                 xmlEntityKey>>

\* parsePattern(format, src, baseMsg, onError)
ParseSink ==
  /\ call.format \in Formats
  /\ readable(call.format, text)
  /\ pc \in {"text", "serialized"}
  /\ LET done(r) ==
           /\ ret' = withSink(r)
           /\ errs' = errs \o r.errs
           /\ msg' = r.value
           /\ pc' = IF r.thrown THEN "parse_threw" ELSE "parsed"
     IN done(parsePattern(call.format, text, call.base))
  /\ _xmlEntityKey' = parseKey(call.format, text)
  /\ UNCHANGED <<round, ast, prevMsg, text, call, orig, strictRet, xmlEntityKey>>

NextPattern == SerializeStrict \/ SerializeSink \/ ParseStrict \/ ParseSink

SpecPattern == InitPattern /\ [][NextPattern]_vars

\* the entry functions and the pattern functions together
InitParsers == InitFluent \/ InitPattern
NextParsers == NextFluent \/ NextPattern
SpecParsers == InitParsers /\ [][NextParsers]_vars

(***************************************************************************)
(* Properties of the pattern calls                                         *)
(***************************************************************************)
\* the operation of the last call made with the sink
lastOp ==
  IF pc \in {"serialized", "serialize_threw"} THEN "serialize"
  ELSE IF pc \in {"parsed", "parse_threw"} THEN "parse"
  ELSE "none"

\* the defects the sink was handed, by kind
delivered(type) == SelectSeq(errs, LAMBDA e : e.type = type)

\* a sequence of text, expression and markup parts
IsPattern(p) == \A i \in 1..Len(p) : p[i].k \in {"string", "expr", "markup"}

\* a source without quoted literals in which a brace has no partner: a '}'
\* outside a placeholder, a '{' inside one, a placeholder left open, or a
\* backslash at the end
BraceFault(src) ==
  LET RECURSIVE scan(_, _)
      scan(i, depth) ==
        IF i > Len(src) THEN depth # 0
        ELSE IF src[i] = "\\" THEN i = Len(src) \/ scan(i + 2, depth)
        ELSE IF src[i] = "{" THEN depth = 1 \/ scan(i + 1, 1)
        ELSE IF src[i] = "}" THEN depth = 0 \/ scan(i + 1, 0)
        ELSE scan(i + 1, depth)
  IN ~Includes(src, "|") /\ scan(1, 0)

Mf2Invalid(src) == src \in {<<"e", "x", "t", "r", "a", " ", "}">>, <<"{", " ", "}">>, <<"{", ":", ":", "f", "u", "n", "c", "}">>} \/ BraceFault(src)

\* C4: mf2ParsePattern with a sink does not throw; on a syntactically
\* invalid source it calls the sink exactly once, with a ParseError of the
\* mf2 format, and returns a Pattern.
C4_Mf2SinkContract ==
  (lastOp = "parse" /\ call.format = "mf2") =>
    /\ ret.ok
    /\ IsPattern(msg)
    /\ Mf2Invalid(text) =>
         /\ Len(errs) = 1
         /\ errs[1].type = "ParseError"
         /\ errs[1].fmt = "mf2"

C4_Witness ==
  /\ pc = "parsed"
  /\ call.format = "mf2"
  /\ text = <<"e", "x", "t", "r", "a", " ", "}">>
  /\ Len(errs) = 1
  /\ msg = <<>>

\* C5: for every format tag, a call of parsePattern or serializePattern on
\* an input with a defect throws the first defect (a ParseError, a
\* SerializeError) when it is made without a sink, and when made with a
\* sink does not throw, hands the defect to the sink and returns a value.
C5_StrictVersusSink ==
  LET kind == IF lastOp = "serialize" THEN "SerializeError" ELSE "ParseError"
      given == delivered(kind)
      strictOut == strictRet.out
  IN (/\ lastOp # "none"
      /\ strictRet.op = lastOp
      /\ (given # <<>> \/ ~strictOut.ok \/ ~ret.ok)) =>
       /\ given # <<>>
       /\ ret.ok
       /\ ~strictOut.ok
       /\ strictOut.error = given[1]

\* the names of the elements a pattern leaves open, the outermost first, when
\* every close part names the innermost open element; <<"?">> otherwise
OpenAtEnd(p) ==
  LET RECURSIVE run(_, _)
      run(i, stack) ==
        IF i > Len(p) THEN stack
        ELSE IF isString(p[i]) THEN run(i + 1, stack)
        ELSE IF ~isMarkup(p[i]) \/ p[i].opt # NoOpt THEN <<"?">>
        ELSE IF p[i].kind = "open" THEN run(i + 1, Append(stack, p[i].name))
        ELSE IF p[i].kind = "close" /\ stack # <<>> /\ Last(stack) = p[i].name
        THEN run(i + 1, Front(stack))
        ELSE <<"?">>
  IN run(1, <<>>)

\* a pattern whose only anomaly is one open part without its close
OneUnclosed(p) == Len(OpenAtEnd(p)) = 1 /\ OpenAtEnd(p) # <<"?">>

\* the XML text of a pattern of plain text and properly nested markup
XmlText(p) ==
  Concat([i \in 1..Len(p) |->
            IF isString(p[i]) THEN p[i].s
            ELSE IF p[i].kind = "open"
            THEN <<"<">> \o p[i].name \o
                 (IF i < Len(p) /\ isMarkup(p[i + 1]) /\ p[i + 1].kind = "close"
                  THEN <<"/", ">">> ELSE <<">">>)
            ELSE IF isMarkup(p[i - 1]) /\ p[i - 1].kind = "open" THEN <<>>
            ELSE <<"<", "/">> \o p[i].name \o <<">">>])

C7_AndroidEscaping ==
  (/\ lastOp = "parse"
   /\ call.format = "android"
   /\ orig \in {<<Str(t)>> : t \in WhiteTexts}) =>
    /\ errs = <<>>
    /\ ret.ok
    /\ \A i \in 1..Len(text) :
         /\ text[i] \notin {"\n", "\t"}
         /\ i > 1 => ~(text[i] = " " /\ text[i - 1] = " ")
    /\ msg = orig

\* C8: webextParsePattern gives back, without a defect, every pattern of
\* texts and of placeholders with their source, declared in the base message
\* or numbered, that webextSerializePattern serializes without a defect.
C8_WebextRoundTrip ==
  (/\ lastOp = "parse"
   /\ call.format = "webext"
   /\ call.base = Declared
   /\ orig \in PatternsOver(WebextTexts, WebextPlaceholders, MaxParts)
   /\ delivered("SerializeError") = <<>>) =>
    /\ ret.ok
    /\ errs = <<>>
    /\ msg = orig

\* C9: fluentParsePattern gives back, without a defect, every pattern of
\* texts (a backslash and braces among their characters) and expressions that
\* fluentSerializePattern serializes without a defect.
C9_FluentRoundTrip ==
  (/\ lastOp = "parse"
   /\ call.format = "fluent"
   /\ orig \in FluentTextAndExpression
   /\ delivered("SerializeError") = <<>>) =>
    /\ ret.ok
    /\ errs = <<>>
    /\ msg = orig

\* the text parts of a pattern with the error marker for every other part
MarkedText(p) ==
  Concat([i \in 1..Len(p) |-> IF isString(p[i]) THEN p[i].s ELSE ERROR_RESULT])

\* C10: under a format tag outside the fixed set and with a sink, neither
\* call throws; parsePattern returns [src] and reports exactly one
\* ParseError; serializePattern returns the text parts with the error marker
\* in the place of every other part, and reports one SerializeError for the
\* format and one for each part that is not text.
C10_UnknownFormat ==
  LET known == {"android", "fluent", "mf2", "plain", "webext", "xliff"}
      others == {i \in 1..Len(orig) : ~isString(orig[i])}
  IN (call.format \notin known /\ lastOp # "none") =>
       /\ ret.ok
       /\ lastOp = "parse" =>
            /\ msg = <<Str(text)>>
            /\ Len(delivered("ParseError")) = 1
       /\ (lastOp = "serialize" \/ orig # <<>>) =>
            /\ text = MarkedText(orig)
            /\ Len(delivered("SerializeError")) = 1 + Cardinality(others)
       /\ \A i \in 1..Len(errs) : errs[i].fmt = call.format

C10_Witness ==
  /\ pc = "parsed"
  /\ call.format = "unsupported"
  /\ orig = <<Str(<<"h", "e", "l", "l", "o", " ">>), Expr(<<"l", "i", "t">>, Undef, Undef, NoOpt)>>
  /\ text = <<"h", "e", "l", "l", "o", " ">> \o ERROR_RESULT
  /\ Len(errs) = 3

(***************************************************************************)
(* Properties of fluentSerializeMessage on SelectMessages of any shape     *)
(***************************************************************************)
\* the key tuples of m all have the same length
equalLengths(m) ==
  \A i, j \in 1..Len(m.alt) : Len(m.alt[i].keys) = Len(m.alt[j].keys)

\* every variant of m has, at each position, a variant with the same keys
\* before that position and a catchall key at it
fallbackRows(m) ==
  /\ m.alt # <<>>
  /\ \A i \in 1..Len(m.alt) : \A p \in 1..Len(m.alt[i].keys) :
       \E j \in 1..Len(m.alt) :
         /\ Len(m.alt[j].keys) >= p
         /\ Take(m.alt[j].keys, p - 1) = Take(m.alt[i].keys, p - 1)
         /\ m.alt[j].keys[p].catchall

\* the rows left when keys0 is empty, for a message whose patterns and
\* keys can all be written
rowsLeft(m) ==
  LET folded == foldSelectors(m, [i \in 1..Len(m.alt) |->
                                    [keys |-> m.alt[i].keys, pattern |-> <<<<"x">>>>]],
                              fallbackName(m))
  IN IF m.alt = <<>> \/ ~folded.ok THEN 0 ELSE Len(folded.variants)

\* fluentSerializeEntry has been called on a message built by a caller
HandSerialized == round = 0 /\ pc \in {"serialized", "serialize_failed"}

\* C11: for a SelectMessage whose key tuples differ in length, or where a
\* group of rows lacks its catchall row, fluentSerializeEntry throws and
\* returns no text; when more than one row is left after the last selector
\* position has been folded, the error thrown is a SerializeError.
C11_ReconstructionAbort ==
  /\ (HandSerialized /\ msg.type = "select"
        /\ ~(equalLengths(msg) /\ fallbackRows(msg))) => pc = "serialize_failed"
  /\ (HandSerialized /\ msg.type = "select" /\ rowsLeft(msg) > 1) =>
       (pc = "serialize_failed" /\ ret.error.type = "SerializeError")

\* the parts of C11 on key tuples of unequal length and on the rows left
UnequalLengthsAbort ==
  /\ (HandSerialized /\ msg.type = "select" /\ ~equalLengths(msg)) =>
       pc = "serialize_failed"
  /\ (HandSerialized /\ msg.type = "select" /\ rowsLeft(msg) > 1) =>
       (pc = "serialize_failed" /\ ret.error.type = "SerializeError")

(***************************************************************************)
(* Properties of the patterns the parsers return                           *)
(***************************************************************************)
\* two text parts of p stand next to each other
adjacentText(p) == \E i \in 1..(Len(p) - 1) : isString(p[i]) /\ isString(p[i + 1])

\* the patterns of a message returned by fluentParseEntry
patternsOf(m) ==
  IF m.type = "select" THEN {m.alt[i].pat : i \in 1..Len(m.alt)} ELSE {m.pat}

\* the part of C12 on the normalizer
NormalizerCoalesces ==
  (pc = "normalized" /\ round > 0) => \A p \in patternsOf(msg) : ~adjacentText(p)

\* a pattern call with the sink has returned a pattern
PatternParsed(format) == pc = "parsed" /\ call.format = format

\* C12: a Pattern returned by fluentParseEntry (for each variant),
\* fluentParsePattern, webextParsePattern or androidParsePattern has no
\* two text parts next to each other, whether or not the call reported a
\* defect to the sink.
C12_TextCoalescing ==
  /\ NormalizerCoalesces
  /\ \A format \in {"fluent", "webext", "android"} :
       PatternParsed(format) => ~adjacentText(msg)

\* C12 as the code has it: the patterns of fluentParseEntry,
\* webextParsePattern and androidParsePattern never have two text parts
\* next to each other, nor has the pattern of a fluentParsePattern call that
\* reported no defect.  After a defect fluentParsePattern appends the
\* source from the place of the defect on as a text part of its own, and
\* only that part may follow another text part.
C12_CoalescedUnlessDefect ==
  LET defects == delivered("ParseError") IN
  /\ NormalizerCoalesces
  /\ \A format \in {"webext", "android"} :
       PatternParsed(format) => ~adjacentText(msg)
  /\ (PatternParsed("fluent") /\ defects = <<>>) => ~adjacentText(msg)
  /\ (PatternParsed("fluent") /\ defects # <<>>) =>
       /\ Len(defects) = 1
       /\ defects[1].range[2] = Len(text)
       /\ IF defects[1].range[1] < Len(text)
          THEN /\ msg # <<>>
               /\ Last(msg) = Str(Drop(text, defects[1].range[1]))
               /\ ~adjacentText(Front(msg))
          ELSE ~adjacentText(msg)

\* the test fluent onError: the source comes back as the two text parts
\* "invalid " and "}" with one defect
C12_Witness ==
  /\ PatternParsed("fluent")
  /\ text = <<"i", "n", "v", "a", "l", "i", "d", " ", "}">>
  /\ msg = <<Str(<<"i", "n", "v", "a", "l", "i", "d", " ">>), Str(<<"}">>)>>
  /\ Len(delivered("ParseError")) = 1

\* a SelectMessage has come back from fluentParseEntry
SelectNormalized == pc = "normalized" /\ round > 0 /\ msg.type = "select"

\* C13: in every SelectMessage returned by fluentParseEntry each variant
\* has as many keys as there are selectors, no two variants have the same
\* key tuple, and some variant left after the pruning has catchall keys
\* only.
C13_VariantWellFormed ==
  SelectNormalized =>
    /\ \A i \in 1..Len(msg.alt) : Len(msg.alt[i].keys) = Len(msg.sel)
    /\ \A i, j \in 1..Len(msg.alt) : i # j => msg.alt[i].keys # msg.alt[j].keys
    /\ \E i \in 1..Len(msg.alt) :
         \A j \in 1..Len(msg.alt[i].keys) : msg.alt[i].keys[j].catchall

\* an entry with two selectors, one of them met in two choice nodes with a
\* key in common, came back with rows of the key matrix pruned
C13_Witness ==
  /\ SelectNormalized /\ round = 1
  /\ Len(msg.sel) = 2
  /\ LET selData == findSelectors(ast, <<>>) IN
       /\ \E i \in 1..Len(selData) : Len(uniqueKeys(selData[i])) < Len(selData[i].keys)
       /\ Len(msg.alt) < Len(uniqueKeys(selData[1])) * Len(uniqueKeys(selData[2]))

(***************************************************************************)
(* Properties of the defects the serializers report                        *)
(***************************************************************************)
\* what the defects reported for a part that cannot be written say
PartDefects ==
  {"Unsupported pattern part", "Unsupported markup", "Unsupported function",
   "Unsupported option value", "Unsupported message or term reference"}

\* the defects of errors that are about a part
partDefects(errors) == SelectSeq(errors, LAMBDA e : e.what \in PartDefects)

\* the serializer of format reports a defect for part
refusedPart(format, part) ==
  partDefects(serializePattern(format, <<part>>).errs) # <<>>

\* what each part of p is written as, with the error marker for the parts
\* the serializer reports
markedSerialization(format, p) ==
  Concat([i \in 1..Len(p) |->
            IF refusedPart(format, p[i]) THEN ERROR_RESULT
            ELSE serializePattern(format, <<p[i]>>).value])

\* serializePattern(format, msg, onError) went on after every part it
\* reported and wrote the error marker in its place
markerWritten(format) ==
  (pc = "serialized" /\ call.format = format /\ msg \in FaultyPatterns) =>
    /\ ret.ok
    /\ Len(partDefects(errs)) =
         Cardinality({i \in 1..Len(msg) : refusedPart(format, msg[i])})
    /\ text = markedSerialization(format, msg)

\* the part of C14 on the serializers other than the android one
MarkerOutsideAndroid ==
  \A format \in {"fluent", "webext", "plain", "xliff"} : markerWritten(format)

\* C14: when the fluent, webext, plain, xliff or android serializer, called
\* with a sink, reports a defect for a part it cannot write, it goes on
\* with the parts after it and the string it returns has the error marker
\* where that part stands.
C14_ErrorMarker ==
  \A format \in {"fluent", "webext", "plain", "xliff", "android"} :
    markerWritten(format)

\* the places of the parts of p that the serializer of format reports, in
\* order
refusedPlaces(format, p) ==
  LET places == {i \in 1..Len(p) : refusedPart(format, p[i])}
      nth(n) == CHOOSE i \in places : Cardinality({j \in places : j <= i}) = n
  IN [n \in 1..Cardinality(places) |-> nth(n)]

\* C15: every SerializeError that the fluent, plain or webext serializer
\* reports for a part it cannot write has pos equal to the length of the
\* output built from the parts before it, and the error marker starts at
\* that offset of the returned string.
C15_DefectPosition ==
  \A format \in {"fluent", "plain", "webext"} :
    (pc = "serialized" /\ call.format = format) =>
      LET places == refusedPlaces(format, msg)
          defects == partDefects(errs)
      IN /\ Len(defects) = Len(places)
         /\ \A n \in 1..Len(defects) :
              /\ defects[n].type = "SerializeError"
              /\ defects[n].pos =
                   Len(serializePattern(format, Take(msg, places[n] - 1)).value)
              /\ SubSeq(text, defects[n].pos + 1, defects[n].pos + Len(ERROR_RESULT))
                   = ERROR_RESULT

\* the test 'unsupported pattern part' of webext.test.ts: the defect has
\* pos 6 and the text is 'Hello ', the marker and '?'
C15_Witness ==
  /\ pc = "serialized" /\ call.format = "webext"
  /\ msg = <<Str(<<"H", "e", "l", "l", "o", " ">>), Expr(<<"w", "o", "r", "l", "d">>, Undef, Undef, NoOpt), Str(<<"?">>)>>
  /\ Len(errs) = 1 /\ errs[1].pos = 6
  /\ text = <<"H", "e", "l", "l", "o", " ">> \o ERROR_RESULT \o <<"?">>

(***************************************************************************)
(* Properties of the counters that mint the entity tokens                  *)
(***************************************************************************)
\* C16: the counter behind the entity tokens belongs to one call of
\* androidParsePattern or androidSerializePattern: no call leaves
\* _xmlEntityKey or xmlEntityKey with a value other than the one it found,
\* so no call works from a value that an earlier call left.
C16_PerCallCounter ==
  [][_xmlEntityKey' = _xmlEntityKey /\ xmlEntityKey' = xmlEntityKey]_vars

(***************************************************************************)
(* Unresolved variables of webextParsePattern                              *)
(***************************************************************************)
\* the matches of the placeholder expression in src, left to right, as
\* records of the alternative and the span [start, end), counted from 0
webextMatches(src) ==
  LET RECURSIVE scan(_)
      scan(i) ==
        IF i > Len(src) THEN <<>>
        ELSE LET m == webextMatchAt(src, i)
             IN IF m.alt = 0 THEN scan(i + 1)
                ELSE <<[alt |-> m.alt, start |-> i - 1, end |-> m.end - 1]>>
                       \o scan(m.end)
  IN scan(1)

\* the text of a match
matchSrc(src, m) == SubSeq(src, m.start + 1, m.end)

\* the lower-cased name of a named placeholder
nameOf(src, m) == toLowerCase(SubSeq(src, m.start + 2, m.end - 1))

\* the placeholders (named and indexed) and the expressions of the pattern
placeholdersOf(src) == SelectSeq(webextMatches(src), LAMBDA m : m.alt \in {1, 2})
expressionsOf(p) == SelectSeq(p, LAMBDA part : ~isString(part))

\* the text parts of src before position n, with '$$' runs read as text
textBefore(src, n) ==
  LET ms == webextMatches(src)
      RECURSIVE walk(_, _)
      walk(k, pos) ==
        IF k > Len(ms) \/ ms[k].start >= n THEN SubSeq(src, pos + 1, n)
        ELSE SubSeq(src, pos + 1, ms[k].start)
               \o (IF ms[k].alt = 3 THEN SubSeq(src, ms[k].start + 2, ms[k].end)
                   ELSE <<>>)
               \o walk(k + 1, ms[k].end)
  IN walk(1, 0)

\* the text of the parts of p before its k-th expression
textOfPartsBefore(p, k) ==
  LET RECURSIVE walk(_, _)
      walk(i, seen) ==
        IF i > Len(p) THEN <<>>
        ELSE IF isString(p[i]) THEN p[i].s \o walk(i + 1, seen)
        ELSE IF seen + 1 = k THEN <<>>
        ELSE walk(i + 1, seen + 1)
  IN walk(1, 0)

\* webextParsePattern has returned for text with the sink
WebextParsed == PatternParsed("webext")

\* each placeholder of the source is in the pattern, in its place, as the
\* variable expression that keeps its text
PlaceholdersKept ==
  WebextParsed =>
    LET ms == placeholdersOf(text)
        es == expressionsOf(msg)
    IN /\ Len(es) = Len(ms)
       /\ \A k \in 1..Len(ms) :
            /\ ms[k].alt = 1 =>
                 es[k] = withSource(Expr(Undef, nameOf(text, ms[k]), Undef, NoOpt),
                                    matchSrc(text, ms[k]))
            /\ textOfPartsBefore(msg, k) = textBefore(text, ms[k].start)

\* the ParseErrors of the call whose range is the span of m
reportsOf(m) ==
  SelectSeq(delivered("ParseError"),
            LAMBDA e : e.range = <<m.start, m.end>>)

\* the named placeholders with a name decl has are not reported
ResolvedSilent ==
  WebextParsed =>
    \A k \in 1..Len(placeholdersOf(text)) :
      LET m == placeholdersOf(text)[k]
      IN (m.alt = 2 \/ nameOf(text, m) \in call.base) => reportsOf(m) = <<>>

\* C17: after webextParsePattern, for each named placeholder $NAME$ of the
\* source whose lower-cased name the base message does not declare, the
\* sink has exactly one ParseError with the span of the placeholder as its
\* range, and the pattern has the variable expression with the lower-cased
\* name and the text of the placeholder as source in that place.
C17_UnresolvedVariable ==
  /\ PlaceholdersKept
  /\ WebextParsed =>
       \A k \in 1..Len(placeholdersOf(text)) :
         LET m == placeholdersOf(text)[k]
         IN (m.alt = 1 /\ nameOf(text, m) \notin call.base) =>
              Len(reportsOf(m)) = 1

\* the same for the names that no plain object has as a property
UnresolvedOwnNames ==
  WebextParsed =>
    \A k \in 1..Len(placeholdersOf(text)) :
      LET m == placeholdersOf(text)[k]
      IN (m.alt = 1 /\ nameOf(text, m) \notin call.base
                    /\ nameOf(text, m) \notin ObjectPrototype) =>
           Len(reportsOf(m)) = 1

(***************************************************************************)
(* The logical selectors of a selector tree                                *)
(***************************************************************************)
RECURSIVE choiceNodes(_)
RECURSIVE choiceNodesOf(_)
\* the choice nodes of a tree in the order a depth-first walk meets them,
\* each with its selector identity and its keys
choiceNodes(elements) ==
  IF elements = <<>> THEN <<>>
  ELSE LET el == Head(elements)
           here ==
             IF el.type = "Placeable" /\ el.expression.type = "SelectExpression"
             THEN LET se == el.expression
                      keys == [i \in 1..Len(se.variants) |-> variantKey(se.variants[i])]
                  IN <<[identity |-> selectExpression(se.selector, keys),
                        keys |-> keys]>> \o choiceNodesOf(se.variants)
             ELSE <<>>
       IN here \o choiceNodes(Tail(elements))

choiceNodesOf(variants) ==
  IF variants = <<>> THEN <<>>
  ELSE choiceNodes(Head(variants).value) \o choiceNodesOf(Tail(variants))

RECURSIVE firstSeen(_)
\* the members of a sequence, each where it is first seen
firstSeen(seq) ==
  IF seq = <<>> THEN <<>>
  ELSE LET before == firstSeen(Front(seq))
       IN IF \E i \in 1..Len(before) : before[i] = Last(seq) THEN before
          ELSE Append(before, Last(seq))

\* the selector identities of the nodes, and all keys of the nodes of one
identitiesOf(nodes) == firstSeen([i \in 1..Len(nodes) |-> nodes[i].identity])
RECURSIVE keysUnder(_, _)
keysUnder(nodes, identity) ==
  IF nodes = <<>> THEN <<>>
  ELSE (IF Head(nodes).identity = identity THEN Head(nodes).keys ELSE <<>>)
         \o keysUnder(Tail(nodes), identity)

\* fluentParseEntry has normalized the tree in ast
EntryNormalized == pc = "normalized" /\ round >= 1

\* C18: the normalizer records one selector for each distinct selector
\* identity among the choice nodes of the tree, in the order in which a
\* depth-first walk first meets them, and the key list of each is the keys
\* of all its choice nodes, each key once, in first-seen order.  The
\* message returned declares these selectors in that order and has no key
\* in a column that is not in the selector's list.
C18_SelectorDiscovery ==
  EntryNormalized =>
    LET nodes == choiceNodes(ast)
        ids == identitiesOf(nodes)
        selData == findSelectors(ast, <<>>)
    IN /\ Len(selData) = Len(ids)
       /\ \A i \in 1..Len(ids) :
            /\ selData[i].msgSel = ids[i]
            /\ uniqueKeys(selData[i]) = firstSeen(keysUnder(nodes, ids[i]))
       /\ IF ids = <<>> THEN msg.type = "pattern"
          ELSE /\ msg.type = "select"
               /\ Len(msg.sel) = Len(ids)
               /\ \A i \in 1..Len(ids) :
                    /\ msg.decl[i] = <<msg.sel[i], ids[i]>>
                    /\ \A r \in 1..Len(msg.alt) :
                         \E k \in 1..Len(keysUnder(nodes, ids[i])) :
                           msg.alt[r].keys[i] = message_key(keysUnder(nodes, ids[i])[k])

\* a tree of three choice nodes with two identities, the second of which
\* has a key list shorter than the keys of its nodes taken together
C18_Witness ==
  /\ EntryNormalized
  /\ LET nodes == choiceNodes(ast)
         ids == identitiesOf(nodes)
     IN /\ Len(nodes) = 3
        /\ Len(ids) = 2
        /\ nodes[2].identity = nodes[3].identity
        /\ Len(firstSeen(keysUnder(nodes, ids[2]))) < Len(keysUnder(nodes, ids[2]))
        /\ msg.type = "select" /\ Len(msg.sel) = 2

(***************************************************************************)
(* Choice nodes on one variable with keys of both classes                  *)
(***************************************************************************)
\* the variable has a choice node whose keys are all numbers or plural
\* categories and a choice node with another key
mixedOn(nodes, var) ==
  \E i, j \in 1..Len(nodes) :
    /\ nodes[i].identity = Expr(Undef, var, FnNumber, NoOpt)
    /\ nodes[j].identity = Expr(Undef, var, FnString, NoOpt)

\* the variables of the choice nodes
selectorVariables(nodes) ==
  {nodes[i].identity.var : i \in 1..Len(nodes)} \ {Undef}

\* the selectors of a message that select on var
selectorsOn(m, var) == {i \in 1..Len(m.sel) : m.decl[i][2].var = var}

\* the keys of the nodes on var, whatever their class
keysOn(nodes, var) ==
  UNION {{nodes[i].keys[k] : k \in 1..Len(nodes[i].keys)} :
           i \in {n \in 1..Len(nodes) : nodes[n].identity.var = var}}

\* C19: when a variable has a choice node whose keys are all numbers or
\* plural categories and a choice node with some other key, the message
\* has one selector on the variable, and the keys of both nodes are the
\* keys of that selector.
C19_MixedClassification ==
  EntryNormalized =>
    LET nodes == choiceNodes(ast)
        selData == findSelectors(ast, <<>>)
    IN \A var \in selectorVariables(nodes) :
         mixedOn(nodes, var) =>
           /\ Cardinality(selectorsOn(msg, var)) = 1
           /\ \A i \in selectorsOn(msg, var) :
                {selData[i].keys[k] : k \in 1..Len(selData[i].keys)}
                  = keysOn(nodes, var)

\* what the normalizer does: the two classes are two selectors, the first
\* met under the name of the variable, each with the keys of its own nodes
MixedKeptApart ==
  EntryNormalized =>
    LET nodes == choiceNodes(ast)
        selData == findSelectors(ast, <<>>)
    IN \A var \in selectorVariables(nodes) :
         mixedOn(nodes, var) =>
           /\ Cardinality(selectorsOn(msg, var)) = 2
           /\ \A i \in selectorsOn(msg, var) :
                selData[i].keys = keysUnder(nodes, msg.decl[i][2])

(***************************************************************************)
(* Choice nodes nested in a variant of a node with the same identity       *)
(***************************************************************************)
\* the place of a selector identity among the identities ids
placeOf(ids, identity) == CHOOSE i \in 1..Len(ids) : ids[i] = identity

RECURSIVE leavesUnder(_, _, _)
RECURSIVE leavesOfVariants(_, _, _, _)
\* the text runs and placeholders under elements, in order, each with the
\* <<selector, key>> pairs of the variants that enclose it, outermost first
leavesUnder(elements, path, ids) ==
  IF elements = <<>> THEN <<>>
  ELSE LET el0 == Head(elements)
           el == IF el0.type = "Placeable" THEN el0.expression ELSE el0
           here ==
             IF el.type = "SelectExpression"
             THEN LET keys == [i \in 1..Len(el.variants) |-> variantKey(el.variants[i])]
                  IN leavesOfVariants(el.variants,
                                      placeOf(ids, selectExpression(el.selector, keys)),
                                      path, ids)
             ELSE <<[el |-> el, path |-> path]>>
       IN here \o leavesUnder(Tail(elements), path, ids)

leavesOfVariants(variants, idx, path, ids) ==
  IF variants = <<>> THEN <<>>
  ELSE leavesUnder(Head(variants).value,
                   Append(path, <<idx, variantKey(Head(variants))>>), ids)
         \o leavesOfVariants(Tail(variants), idx, path, ids)

\* the leaves of the tree in ast
leavesOfTree == leavesUnder(ast, <<>>, identitiesOf(choiceNodes(ast)))

\* the leaf lies in a variant of a node that lies in a variant of a node
\* with the same selector identity
nestedInSame(leaf) ==
  \E m, n \in 1..Len(leaf.path) : m < n /\ leaf.path[m][1] = leaf.path[n][1]

\* the keys of a row agree with the key of every variant around the leaf
agreesWithAll(leaf, rowKeys) ==
  \A n \in 1..Len(leaf.path) :
    message_key(leaf.path[n][2]) = rowKeys[leaf.path[n][1]]

\* the keys of a row agree, for each selector, with the key of the
\* innermost variant of that selector around the leaf
agreesWithInnermost(leaf, rowKeys) ==
  \A n \in 1..Len(leaf.path) :
    (\A m \in (n + 1)..Len(leaf.path) : leaf.path[m][1] # leaf.path[n][1]) =>
      message_key(leaf.path[n][2]) = rowKeys[leaf.path[n][1]]

RECURSIVE written(_)
\* the pattern that a sequence of leaves makes
written(leaves) ==
  IF leaves = <<>> THEN <<>>
  ELSE LET before == written(Front(leaves))
           leaf == Last(leaves).el
       IN IF leaf.type # "TextElement" THEN Append(before, ftlExpression(leaf))
          ELSE IF before # <<>> /\ isString(Last(before))
          THEN Append(Front(before), Str(Last(before).s \o leaf.value))
          ELSE Append(before, Str(leaf.value))

\* a normalized tree with a leaf nested in two variants of one selector
NestedSameNormalized ==
  /\ EntryNormalized
  /\ \E n \in 1..Len(leavesOfTree) : nestedInSame(leavesOfTree[n])

\* C20: when a choice node lies in a variant of a choice node with the
\* same selector identity, the message has no selector more than the tree
\* has identities, and each row holds the leaves whose enclosing variants
\* all have the key of the row for their selector: the key of the inner
\* variant is required together with the key of the outer one.
C20_NestedSameSelector ==
  NestedSameNormalized =>
    /\ msg.type = "select"
    /\ Len(msg.sel) = Len(identitiesOf(choiceNodes(ast)))
    /\ \A r \in 1..Len(msg.alt) :
         msg.alt[r].pat =
           written(SelectSeq(leavesOfTree,
                             LAMBDA leaf : agreesWithAll(leaf, msg.alt[r].keys)))

\* what addPattern does: the key of the inner variant takes the place of
\* the key of the outer variant while the inner variant is visited
InnerKeyReplaces ==
  (EntryNormalized /\ msg.type = "select") =>
    /\ Len(msg.sel) = Len(identitiesOf(choiceNodes(ast)))
    /\ \A r \in 1..Len(msg.alt) :
         msg.alt[r].pat =
           written(SelectSeq(leavesOfTree,
                             LAMBDA leaf : agreesWithInnermost(leaf, msg.alt[r].keys)))

(***************************************************************************)
(* The filter slots across a choice node                                   *)
(***************************************************************************)
RECURSIVE choiceElements(_)
RECURSIVE choiceElementsOf(_)
\* the choice nodes of a tree, as elements
choiceElements(elements) ==
  UNION {LET el == elements[i] IN
         IF el.type = "Placeable" /\ el.expression.type = "SelectExpression"
         THEN {el} \cup choiceElementsOf(el.expression.variants)
         ELSE {} : i \in 1..Len(elements)}

choiceElementsOf(variants) ==
  UNION {choiceElements(variants[j].value) : j \in 1..Len(variants)}

\* the states of the filter slots that population can start a node from:
\* each slot unset or set to a key of its selector
filtersOf(selData) ==
  {f \in [1..Len(selData) ->
            {NoKey} \cup UNION {{selData[i].keys[k] : k \in 1..Len(selData[i].keys)} :
                                  i \in 1..Len(selData)}] :
     \A i \in 1..Len(selData) :
       f[i] = NoKey \/ \E k \in 1..Len(selData[i].keys) : f[i] = selData[i].keys[k]}

\* the state population starts from, with the slots as in filter
populationFrom(selData, filter) ==
  [mv |-> initialVariants(selData), filter |-> filter, varNames |-> {}]

\* a leaf that no variant encloses and that follows a choice node
followsNode(n) ==
  /\ leavesOfTree[n].path = <<>>
  /\ \E m \in 1..(n - 1) : leavesOfTree[m].path # <<>>

\* C21: population leaves every filter slot as it found it across a choice
\* node, whatever the slots hold when the node is entered, so the slots
\* are all unset when population ends, and content after a choice node
\* reaches every row the enclosing variants allow, without a constraint
\* from the node before it.
C21_FilterBacktracking ==
  EntryNormalized =>
    LET selData == findSelectors(ast, <<>>)
        unset == [i \in 1..Len(selData) |-> NoKey]
    IN /\ addPattern(ast, selData, populationFrom(selData, unset)).filter = unset
       /\ \A el \in choiceElements(ast) : \A f \in filtersOf(selData) :
            addPattern(<<el>>, selData, populationFrom(selData, f)).filter = f
       /\ msg.type = "select" =>
            \A r \in 1..Len(msg.alt) :
              msg.alt[r].pat =
                written(SelectSeq(leavesOfTree,
                          LAMBDA leaf : agreesWithInnermost(leaf, msg.alt[r].keys)))

\* two selectors with text between them and a nested node with text after
\* it in the variant
C21_Witness ==
  /\ EntryNormalized
  /\ msg.type = "select"
  /\ \E n \in 1..Len(leavesOfTree) : followsNode(n)
  /\ Cardinality(choiceElements(ast)) = 2
  /\ \A r \in 1..Len(msg.alt) :
       \E n \in 1..Len(leavesOfTree) :
         /\ followsNode(n)
         /\ msg.alt[r].pat # <<>>
         /\ isString(msg.alt[r].pat[1])
         /\ Contains(msg.alt[r].pat[1].s, leavesOfTree[n].el.value)

\* a node nested in a variant with text after it in that variant
NestedThenText ==
  /\ EntryNormalized
  /\ \E n \in 2..Len(leavesOfTree) :
       /\ Len(leavesOfTree[n].path) = 1
       /\ Len(leavesOfTree[n - 1].path) = 2

(***************************************************************************)
(* The names of the declarations                                           *)
(***************************************************************************)
\* the variables of the placeholders in the patterns of a message
placeholderVariables(m) ==
  UNION {{m.alt[r].pat[n].var : n \in {x \in 1..Len(m.alt[r].pat) :
                                        /\ isExpression(m.alt[r].pat[x])
                                        /\ m.alt[r].pat[x].var # Undef}} :
           r \in 1..Len(m.alt)}

\* stem_n for the least n >= 1 for which it is not in taken
firstSuffixed(stem, taken) ==
  LET name(n) == stem \o <<"_">> \o DecimalOf(n)
  IN name(Min({n \in 1..(Cardinality(taken) + 1) : name(n) \notin taken}))

RECURSIVE expectedNames(_, _)
\* the names of the selectors ids, in order, given the names taken
expectedNames(ids, taken) ==
  IF ids = <<>> THEN <<>>
  ELSE LET own == Head(ids).var
           name == IF own # Undef /\ own # <<>> /\ own \notin taken THEN own
                   ELSE firstSuffixed(IF own = Undef THEN <<>> ELSE own, taken)
       IN <<name>> \o expectedNames(Tail(ids), taken \cup {name})

\* C22: each selector is declared under its own variable name when no
\* placeholder of the patterns and no earlier selector has that name, and
\* else under the first free name made by appending _1, _2, ...; the names
\* are distinct from each other and from every placeholder variable of
\* the variant patterns, and decl and sel list them in the order in which
\* the selectors were found.
C22_DeclarationNaming ==
  (EntryNormalized /\ msg.type = "select") =>
    LET ids == identitiesOf(choiceNodes(ast))
        used == placeholderVariables(msg)
    IN /\ msg.sel = expectedNames(ids, used)
       /\ Len(msg.decl) = Len(ids)
       /\ \A i \in 1..Len(ids) : msg.decl[i] = <<msg.sel[i], ids[i]>>
       /\ \A i, j \in 1..Len(msg.sel) : i # j => msg.sel[i] # msg.sel[j]
       /\ \A i \in 1..Len(msg.sel) : msg.sel[i] \notin used

\* a selector on $a whose patterns refer to $a and $a_1 is declared as a_2,
\* and one on a literal after it as _1
C22_Witness ==
  /\ EntryNormalized
  /\ msg.type = "select"
  /\ msg.sel = <<<<"a", "_", "2">>, <<"_", "1">>>>
  /\ placeholderVariables(msg) = {<<"a">>, <<"a", "_", "1">>}
  /\ msg.decl[1][2].var = <<"a">>
  /\ msg.decl[2][2].lit = <<"x">>

(***************************************************************************)
(* Declaration names and the variables other declarations refer to         *)
(***************************************************************************)
\* the name of declaration i is not the variable of its own expression:
\* the normalizer made it
synthesized(m, i) == m.decl[i][1] # m.decl[i][2].var

\* declaration i has a made name that is the variable declaration j selects on
captures(m, i, j) ==
  /\ i # j
  /\ synthesized(m, i)
  /\ m.decl[j][2].var = m.decl[i][1]

\* C30: no declaration name that the normalizer made is the variable that
\* the expression of another selector's declaration refers to.
C30_NoVariableCapture ==
  (EntryNormalized /\ msg.type = "select") =>
    \A i, j \in 1..Len(msg.decl) : ~captures(msg, i, j)

\* a later declaration never captures: only an earlier made name can be
\* the variable of a later selector
CaptureOnlyByEarlier ==
  (EntryNormalized /\ msg.type = "select") =>
    \A i, j \in 1..Len(msg.decl) : captures(msg, i, j) => i < j

(***************************************************************************)
(* The choice nodes the reconstructor writes                               *)
(***************************************************************************)
\* the first n keys of the key tuples of a message
prefixes(m, n) == {SubSeq(m.alt[i].keys, 1, n) : i \in 1..Len(m.alt)}

\* the rows of fluentSerializeMessage before the first pass, the pattern
\* texts left out
rowsOf(m) == [i \in 1..Len(m.alt) |-> [keys |-> m.alt[i].keys, pattern |-> <<<<"x">>>>]]

RECURSIVE foldPasses(_, _, _)
\* the rows after each pass over a selector position, last position first
foldPasses(m, variants, n) ==
  IF n = 0 THEN <<>>
  ELSE LET pass == foldVariants(variants, 1, Undef, FALSE, <<"$", "s">>, Other)
       IN IF ~pass.ok THEN <<>>
          ELSE <<pass.variants>> \o foldPasses(m, pass.variants, n - 1)

\* how often t is in s
occurrences(s, t) == Cardinality({i \in 1..Len(s) : StartsWithAt(s, t, i)})

RECURSIVE sumOver(_, _)
sumOver(f, n) == IF n = 0 THEN 0 ELSE f[n] + sumOver(f, n - 1)

\* fluentSerializeEntry has written a SelectMessage whose key tuples all
\* have a key for each selector
SelectSerialized ==
  /\ pc = "serialized"
  /\ msg.type = "select"
  /\ \A i \in 1..Len(msg.alt) : Len(msg.alt[i].keys) = Len(msg.sel)

\* the rows agreeing on their first n keys stand together
groupedAt(m, n) ==
  \A i, j, k \in 1..Len(m.alt) :
    (i < j /\ j < k /\ SubSeq(m.alt[i].keys, 1, n) = SubSeq(m.alt[k].keys, 1, n))
      => SubSeq(m.alt[j].keys, 1, n) = SubSeq(m.alt[i].keys, 1, n)

\* the variants are in order: for every selector position, the rows that
\* agree on the positions before it stand together
inOrder(m) == \A n \in 0..Len(m.sel) : groupedAt(m, n)

\* each pass leaves one row for each distinct tuple of the remaining keys,
\* and the text has one select expression for each such tuple
collapsed(m, str) ==
  LET passes == foldPasses(m, rowsOf(m), Len(m.sel))
  IN /\ Len(passes) = Len(m.sel)
     /\ \A p \in 1..Len(passes) :
          Len(passes[p]) = Cardinality(prefixes(m, Len(m.sel) - p))
     /\ occurrences(str, <<" ", "-", ">">>)
          = sumOver([n \in 1..Len(m.sel) |-> Cardinality(prefixes(m, n - 1))],
                    Len(m.sel))

\* C23: each pass of the reconstructor over a selector position leaves one
\* row, and writes one select expression, for each distinct tuple of the
\* keys at the other positions, in whatever order the SelectMessage lists
\* its variants.
C23_ReconstructorGrouping ==
  SelectSerialized => collapsed(msg, text)

\* the same for the messages whose variants are in order, as the
\* normalizer returns them
GroupingWhenInOrder ==
  (SelectSerialized /\ inOrder(msg)) => collapsed(msg, text)

(***************************************************************************)
(* fluentParsePattern after a syntax error                                 *)
(***************************************************************************)
\* fluentParsePattern has returned for text after reporting to the sink
FluentDefect == PatternParsed("fluent") /\ delivered("ParseError") # <<>>

\* the part of the source from index on (index from 0)
restFrom(src, index) == Drop(src, index)

\* parts is what the source up to some brace at or before index parses to
\* without an error
parsedBefore(src, parts, index) ==
  \E q \in 0..Min({index, Len(src) - 1}) :
    /\ src[q + 1] \in {"{", "}"}
    /\ LET before == fluentParsePattern(Take(src, q))
       IN before.errs = <<>> /\ ~before.thrown /\ before.value = parts

\* C24: when fluentParsePattern with a sink meets a syntax error, a select
\* expression included, the sink gets exactly one ParseError, whose range
\* is from the index of the error to the end of the source; the pattern
\* returned is the parts parsed before the error and then the rest of the
\* source from that index as one text part.
C24_PartialResult ==
  FluentDefect =>
    LET defects == delivered("ParseError")
        index == defects[1].range[1]
        rest == restFrom(text, index)
    IN /\ Len(defects) = 1
       /\ defects[1].range[2] = Len(text)
       /\ index \in 0..Len(text)
       /\ IF rest = <<>> THEN parsedBefore(text, msg, index)
          ELSE /\ msg # <<>>
               /\ Last(msg) = Str(rest)
               /\ parsedBefore(text, Front(msg), index)

\* a select expression after a text: the text, then the source from '->' on
C24_Witness ==
  /\ FluentDefect
  /\ text = <<"a", "{", " ", "$", "x", " ", "-", ">", "\n", " ", "*", "[", "x", "]", " ", "X", "\n", " ", "}">>
  /\ msg = <<Str(<<"a">>), Str(<<"-", ">", "\n", " ", "*", "[", "x", "]", " ", "X", "\n", " ", "}">>)>>
  /\ delivered("ParseError")[1].range = <<6, 19>>

(***************************************************************************)
(* Expressions the Fluent serializer cannot write in full                  *)
(***************************************************************************)
\* the part has a function name or a variable name that is not an identifier
unwritable(part) ==
  /\ isExpression(part)
  /\ \/ part.fn # Undef /\ ~isIdentifier(part.fn)
     \/ part.var # Undef /\ ~isIdentifier(part.var)

\* fluentSerializePattern has returned for the pattern msg with the sink
FluentSerialized == pc = "serialized" /\ call.format = "fluent"

\* C25: for every expression of the pattern whose function name or
\* variable name is not an identifier, fluentSerializePattern reports a
\* SerializeError and writes the error marker; it does not write the
\* expression without its function or without its argument.
C25_NoSilentDrop ==
  FluentSerialized =>
    /\ \A i \in 1..Len(msg) : unwritable(msg[i]) => refusedPart("fluent", msg[i])
    /\ Len(delivered("SerializeError"))
         >= Cardinality({i \in 1..Len(msg) : unwritable(msg[i])})

\* what is written for such an expression when nothing is reported: the
\* literal or the variable alone, or the function without an argument
writtenShort(part) ==
  LET out == serializePattern("fluent", <<part>>)
  IN /\ out.errs = <<>>
     /\ out.value \in
          {<<"{", " ">> \o x \o <<" ", "}">> :
             x \in {literal(part.lit), <<"$">> \o part.var,
                    toUpperCase(part.fn) \o <<"(", ")">>}}

\* each such expression is either reported or written short
ReportedOrShort ==
  FluentSerialized =>
    \A i \in 1..Len(msg) :
      unwritable(msg[i]) => (refusedPart("fluent", msg[i]) \/ writtenShort(msg[i]))

(***************************************************************************)
(* Entity tokens and text of the same shape                                *)
(***************************************************************************)
\* the names of the entity expressions of a pattern, in order
entityNames(p) ==
  LET found == SelectSeq(p, LAMBDA part : isExpression(part) /\ part.fn = FnEntity)
  IN [i \in 1..Len(found) |-> found[i].var]

\* the names of the references in src to entities that are not XML's own
referencesIn(src) ==
  LET found == protectEntities(src, 0).entities
  IN [i \in 1..Len(found) |-> found[i][2]]

\* a pattern of text parts and entity expressions only
textAndEntities(p) ==
  \A i \in 1..Len(p) :
    isString(p[i]) \/ (isExpression(p[i]) /\ p[i].fn = FnEntity)

\* androidParsePattern has returned a pattern for text without a defect
AndroidParsedClean ==
  PatternParsed("android") /\ delivered("ParseError") = <<>>

\* androidSerializePattern has written the pattern msg without a defect
AndroidSerializedClean ==
  /\ pc = "serialized" /\ call.format = "android"
  /\ errs = <<>>
  /\ textAndEntities(msg)

\* the entity expressions of the pattern parsed are the references of the
\* source, one for one
entitiesFromReferences == entityNames(msg) = referencesIn(text)

\* each part is written as it is written alone
writtenPartByPart ==
  text = Concat([i \in 1..Len(msg) |-> serializePattern("android", <<msg[i]>>).value])

\* C26: a token minted for an entity reference is never the same as text
\* of the input: androidParsePattern returns an entity expression for each
\* entity reference of the source and for nothing else, so source text of
\* the shape _entity_<digits>_ comes back as text, and
\* androidSerializePattern puts each entity back where its expression
\* stands.
C26_CollisionFreeTokens ==
  /\ AndroidParsedClean => entitiesFromReferences
  /\ AndroidSerializedClean => writtenPartByPart

\* the same when neither the source nor a text part has '_entity_' in it
TokensApartFromOtherText ==
  /\ (AndroidParsedClean /\ ~Contains(text, <<"_", "e", "n", "t", "i", "t", "y", "_">>)) => entitiesFromReferences
  /\ (AndroidSerializedClean
        /\ \A i \in 1..Len(msg) : isString(msg[i]) => ~Contains(msg[i].s, <<"_", "e", "n", "t", "i", "t", "y", "_">>))
       => writtenPartByPart

(***************************************************************************)
(* The current element of the XML serializers.                             *)
(***************************************************************************)

\* a pattern of texts and of open and close parts that createElementNS takes
OpenAndClose(p) ==
  \A i \in 1..Len(p) :
    \/ isString(p[i])
    \/ /\ isMarkup(p[i])
       /\ p[i].kind \in {"open", "close"}
       /\ p[i].opt = NoOpt
       /\ isXmlName(p[i].name, {XliffPrefix})

\* the elements open after the first n parts of a pattern, the outermost
\* first, when a close part leaves the innermost one if it has its name and
\* no element otherwise
cursorAfter(p, n) ==
  LET RECURSIVE run(_, _)
      run(i, stack) ==
        IF i > n THEN stack
        ELSE IF isString(p[i]) THEN run(i + 1, stack)
        ELSE IF p[i].kind = "open" THEN run(i + 1, Append(stack, p[i].name))
        ELSE IF stack # <<>> /\ Last(stack) = p[i].name
        THEN run(i + 1, Front(stack))
        ELSE run(i + 1, stack)
  IN run(1, <<>>)

\* the close parts of a pattern that do not name the current element
improperCloses(p) ==
  {i \in 1..Len(p) :
     /\ isMarkup(p[i])
     /\ p[i].kind = "close"
     /\ LET before == cursorAfter(p, i - 1)
        IN before = <<>> \/ Last(before) # p[i].name}

\* the elements a pattern enters and leaves, in the order of its parts, and
\* the ones left at its end
expectedTags(p) ==
  LET atEnd == cursorAfter(p, Len(p))
  IN Concat([i \in 1..Len(p) |->
               IF isString(p[i]) \/ i \in improperCloses(p) THEN <<>>
               ELSE <<<<p[i].kind, p[i].name>>>>])
     \o [k \in 1..Len(atEnd) |-> <<"close", atEnd[Len(atEnd) + 1 - k]>>]

\* the tags of an XML text in the order they are written: a start tag enters
\* an element, an end tag leaves one, an empty-element tag does both
tagsOf(str) ==
  LET first(i, chars) ==
        CHOOSE j \in i..Len(str) + 1 :
          /\ j = Len(str) + 1 \/ str[j] \in chars
          /\ \A k \in i..j - 1 : str[k] \notin chars
      tag(i) ==
        LET end == first(i, {">"})
        IN IF charAt(str, i + 1) = "/"
           THEN <<<<"close", SubSeq(str, i + 2, end - 1)>>>>
           ELSE LET name == SubSeq(str, i + 1, first(i, {" ", "/", ">"}) - 1)
                IN IF str[end - 1] = "/"
                   THEN <<<<"open", name>>, <<"close", name>>>>
                   ELSE <<<<"open", name>>>>
  IN Concat([i \in 1..Len(str) |-> IF str[i] = "<" THEN tag(i) ELSE <<>>])

\* every end tag names the element entered last and not yet left, and no
\* element is left open
wellNested(tags) ==
  LET RECURSIVE run(_, _)
      run(i, stack) ==
        IF i > Len(tags) THEN stack = <<>>
        ELSE IF tags[i][1] = "open" THEN run(i + 1, Append(stack, tags[i][2]))
        ELSE /\ stack # <<>>
             /\ Last(stack) = tags[i][2]
             /\ run(i + 1, Front(stack))
  IN run(1, <<>>)

improperlyNested == {i \in 1..Len(errs) : errs[i].what = "Improper element nesting"}
leftOpen == {i \in 1..Len(errs) : errs[i].what = "Missing closing markup"}

\* C27: xliffSerializePattern and androidSerializePattern, given texts and
\* open and close parts, leave the current element on a close part only when
\* it is not the root and has the name of the part: each other close part
\* is reported once as "Improper element nesting" and changes nothing, the
\* elements still open at the end are reported once as "Missing closing
\* markup", and the text returned is well-nested, with the start and end
\* tags of exactly the parts that were honoured.
C27_XmlCursor ==
  (/\ pc = "serialized"
   /\ call.format \in {"android", "xliff"}
   /\ OpenAndClose(msg)) =>
    /\ Cardinality(improperlyNested) = Cardinality(improperCloses(msg))
    /\ Cardinality(leftOpen) = IF cursorAfter(msg, Len(msg)) = <<>> THEN 0 ELSE 1
    /\ wellNested(tagsOf(text))
    /\ tagsOf(text) = expectedTags(msg)

C27_Witness ==
  /\ pc = "serialized"
  /\ call.format = "xliff"
  /\ msg = <<Markup("open", <<"b">>, NoOpt), Markup("close", <<"i">>, NoOpt),
             Markup("open", <<"i">>, NoOpt)>>
  /\ text = <<"<", "b", ">", "<", "i", "/", ">", "<", "/", "b", ">">>
  /\ Cardinality(improperlyNested) = 1
  /\ Cardinality(leftOpen) = 1

\* a close part that names an element other than the current one is written
\* nowhere in the text returned
ImproperCloseUnwritten ==
  /\ pc = "serialized"
  /\ call.format = "android"
  /\ msg = <<Markup("open", <<"b">>, NoOpt), Str(<<"b", "o", "l", "d">>), Markup("close", <<"a">>, NoOpt)>>
  /\ text = <<"<", "b", ">", "b", "o", "l", "d", "<", "/", "b", ">">>
  /\ Len(errs) = 2

(***************************************************************************)
(* What the tree selects for the keys of a row                             *)
(***************************************************************************)
\* the variant that a choice node selects for a key: the first variant
\* with that key when there is one, the default variant otherwise
chosenVariant(variants, key) ==
  LET same == {i \in 1..Len(variants) : message_key(variantKey(variants[i])) = key}
      deflt == {i \in 1..Len(variants) : variants[i].default}
  IN IF same # {} THEN variants[CHOOSE i \in same : \A j \in same : i <= j]
     ELSE variants[CHOOSE i \in deflt : \A j \in deflt : i <= j]

RECURSIVE selectedUnder(_, _, _)
\* the text runs and placeholders that elements select for the keys of a
\* row, in order
selectedUnder(elements, rowKeys, ids) ==
  IF elements = <<>> THEN <<>>
  ELSE LET el0 == Head(elements)
           el == IF el0.type = "Placeable" THEN el0.expression ELSE el0
           here ==
             IF el.type = "SelectExpression"
             THEN LET keys == [i \in 1..Len(el.variants) |-> variantKey(el.variants[i])]
                      idx == placeOf(ids, selectExpression(el.selector, keys))
                  IN selectedUnder(chosenVariant(el.variants, rowKeys[idx]).value,
                                   rowKeys, ids)
             ELSE <<[el |-> el]>>
       IN here \o selectedUnder(Tail(elements), rowKeys, ids)

\* the pattern that the tree in ast selects for the keys of a row
selectedFor(rowKeys) ==
  written(selectedUnder(ast, rowKeys, identitiesOf(choiceNodes(ast))))

\* every choice node of the tree has all the keys of its selector
everyKeyAtEveryNode ==
  LET nodes == choiceNodes(ast)
      named(keys) == {message_key(keys[k]) : k \in 1..Len(keys)}
  IN \A n \in 1..Len(nodes) :
       named(nodes[n].keys) = named(keysUnder(nodes, nodes[n].identity))

\* C28: each row of a message returned by the normalizer holds the content
\* that the tree selects for the keys of the row, a choice node giving the
\* variant with the row's key for its selector when it has one and its
\* default variant otherwise.
C28_SemanticPreservation ==
  (EntryNormalized /\ msg.type = "select") =>
    \A r \in 1..Len(msg.alt) : msg.alt[r].pat = selectedFor(msg.alt[r].keys)

\* a row holds what the tree selects for it when every node of a selector
\* has every key of the selector and no node lies in a variant of a node of
\* the same selector
PreservedWhenKeysShared ==
  (/\ EntryNormalized
   /\ msg.type = "select"
   /\ everyKeyAtEveryNode
   /\ \A n \in 1..Len(leavesOfTree) : ~nestedInSame(leavesOfTree[n])) =>
    \A r \in 1..Len(msg.alt) : msg.alt[r].pat = selectedFor(msg.alt[r].keys)

\* a tree with two choice nodes or more that all have the keys of their
\* selector has been normalized
SharedKeysNormalized ==
  /\ EntryNormalized
  /\ msg.type = "select"
  /\ Len(choiceNodes(ast)) >= 2
  /\ everyKeyAtEveryNode


(***************************************************************************)
(* The variants of the select expressions that the reconstructor writes    *)
(***************************************************************************)
\* where the lines of a text start
lineStarts(str) == {i \in 1..Len(str) : i = 1 \/ str[i - 1] = "\n"}

\* the first place at or after i that does not hold a space
pastSpaces(str, i) ==
  CHOOSE j \in i..Len(str) + 1 :
    /\ j = Len(str) + 1 \/ str[j] # " "
    /\ \A k \in i..j - 1 : str[k] = " "

\* the end of the line that starts at i, the newline left out
lineEnd(str, i) ==
  CHOOSE j \in i - 1..Len(str) :
    /\ j = Len(str) \/ str[j + 1] = "\n"
    /\ \A k \in i..j : str[k] # "\n"

\* the line opens a select expression: it ends with "->"
opensSelect(str, i) ==
  LET end == lineEnd(str, i)
  IN end - i >= 2 /\ str[end - 1] = "-" /\ str[end] = ">"

\* the line starts a variant: spaces, then "[" or "*["
startsVariant(str, i) ==
  LET at == pastSpaces(str, i)
  IN \/ charAt(str, at) = "[" /\ at > i
     \/ charAt(str, at) = "*" /\ charAt(str, at + 1) = "["

\* the column at which the select expression of a line stands: that of the
\* first character of an opening line, four to the left of "[" for a variant
columnOf(str, i) ==
  LET at == pastSpaces(str, i)
  IN IF startsVariant(str, i)
     THEN (IF str[at] = "*" THEN at + 1 - i ELSE at - i) - 4
     ELSE at - i

\* the variant written on a line
writtenVariant(str, i) ==
  LET at == pastSpaces(str, i)
      open == IF str[at] = "*" THEN at + 1 ELSE at
      close == CHOOSE j \in open..Len(str) :
                 str[j] = "]" /\ \A k \in open..j - 1 : str[k] # "]"
  IN [name |-> SubSeq(str, open + 1, close - 1), default |-> str[at] = "*"]

\* the lines with the variants of the select expression opened on line h
variantLines(str, h) ==
  {v \in lineStarts(str) :
     /\ v > h
     /\ startsVariant(str, v)
     /\ columnOf(str, v) = columnOf(str, h)
     /\ \A n \in lineStarts(str) :
          (h < n /\ n < v /\ opensSelect(str, n)) => columnOf(str, n) # columnOf(str, h)}

\* the select expression opened on line h has one default variant and no
\* key name twice
oneDefaultNoRepeat(str, h) ==
  LET lines == variantLines(str, h)
  IN /\ Cardinality({v \in lines : writtenVariant(str, v).default}) = 1
     /\ \A v, w \in lines :
          writtenVariant(str, v).name = writtenVariant(str, w).name => v = w

\* fluentSerializeEntry has written a SelectMessage that fluentParseEntry
\* returned
NormalizedSerialized == pc = "serialized" /\ round >= 1 /\ msg.type = "select"

\* C29: every select expression that fluentSerializeEntry writes for a
\* SelectMessage returned by fluentParseEntry has exactly one default
\* variant and no two variants with the same key name.
C29_OneDefaultPerNode ==
  NormalizedSerialized =>
    \A h \in lineStarts(text) : opensSelect(text, h) => oneDefaultNoRepeat(text, h)

\* the keys of each selector have one name for the default and no name both
\* as default and not
oneDefaultName(m) ==
  \A n \in 1..Len(m.sel) :
    LET keys == {m.alt[r].keys[n] : r \in 1..Len(m.alt)}
    IN /\ Cardinality({k \in keys : k.catchall}) = 1
       /\ \A k, l \in keys : k.name = l.name => k = l

\* the rows of a message have every tuple of the keys of its selectors
fullMatrix(m) ==
  \A n \in 1..Len(m.sel) :
    \A r, q \in 1..Len(m.alt) :
      \E t \in 1..Len(m.alt) :
        /\ SubSeq(m.alt[t].keys, 1, n - 1) = SubSeq(m.alt[r].keys, 1, n - 1)
        /\ m.alt[t].keys[n] = m.alt[q].keys[n]

\* when the keys of each selector have one default and no name twice, and
\* no row was left out, so has every select expression written
OneDefaultWhenKeysAgree ==
  (NormalizedSerialized /\ oneDefaultName(msg) /\ fullMatrix(msg)) =>
    \A h \in lineStarts(text) : opensSelect(text, h) => oneDefaultNoRepeat(text, h)

\* a message of two selectors written with one default at every node
TwoSelectorsWritten ==
  /\ NormalizedSerialized
  /\ Len(msg.sel) = 2
  /\ oneDefaultName(msg)
  /\ fullMatrix(msg)
  /\ Cardinality({h \in lineStarts(text) : opensSelect(text, h)}) = 3

====
